---- MODULE Spec2Model ----
(***************************************************************************)
(* A model of the cd-ripper toolset: release identification (catalog       *)
(* number search, artist/album search, simple search), canonical metadata  *)
(* resolution in rip_cd, tag writers (rip-time tagging, enrichment,        *)
(* correction, track-number normalisation), moves and renames, and the     *)
(* sidecar (rip_info.json) writes.                                         *)
(*                                                                         *)
(* Conventions.  A Python str is a sequence of one-character strings.  A   *)
(* Python dict is a function whose DOMAIN is the set of keys present.      *)
(* None, '' , [] and {} are all the empty sequence <<>> (Falsy): the code  *)
(* modelled here only ever tests them for truthiness.                      *)
(***************************************************************************)
EXTENDS Integers, Sequences, FiniteSets, TLC

VARIABLES
    \* ---- rip_cd pipeline (src/src/core/rip_cd.py)
    pc,             \* position of rip_cd
    track_count,    \* tracks on the CD (get_track_count)
    metadata,       \* the metadata dict of rip_cd
    mb_metadata,    \* what the searches returned (Falsy = None)
    found_by,       \* which search produced mb_metadata
    user_selected,  \* the user picked the release at a prompt
    choice,         \* the artist name prompt: whether shown, the names, the answer
    album_dir,      \* the album directory, a sequence of path components
    ripped,         \* the track numbers rip_track captured
    steps,          \* what rip_cd has done to the files so far, in order
    file_names,     \* track number -> the name of that file after rename_track_files
    file_tags,      \* track number -> the tags rip_cd saved in that file
    sidecar,        \* the rip_info rip_cd wrote, or Falsy
    \* ---- one call of search_musicbrainz_by_catalog
    cat_in,         \* its arguments: catalog_number, track_count
    cat,            \* what the service answered and what the call returned
    \* ---- one FLAC file and the tag writers
    tags,           \* the file's stored Vorbis comments: field -> value
    op,             \* the last tag-writing operation that ran
    op_in,          \* its inputs
    op_ret,         \* what it returned
    op_saved,       \* it called audio.save()
    op_before,      \* the stored tags before it ran
    op_ok,          \* no I/O failure hit it (audio.save() succeeded if it was called)
    op_again,       \* it repeated the operation before it, with the same inputs
    op_n,           \* how many operations have run on the file
    \* ---- file system (moves and renames)
    fs,             \* path -> content, for the paths that exist
    fs_was,         \* the file system before the last move operation
    fs_op,          \* the last move operation, with its source and target
    \* ---- sidecar writes
    disk,           \* bytes of rip_info.json on disk (a sequence), or Falsy
    sc_old,         \* the complete document before the write in progress
    sc_new,         \* the complete document being written
    sc_pc,          \* position of the writer
    sc_writer,      \* which tool is writing
    \* ---- batch enrichment (src/src/core/enrich_metadata.py)
    batch,          \* the albums of the collection, the position, the statistics
    \* ---- the catalog number prompt (src/src/core/rip_cd.py)
    prompt,         \* attempts so far, what the prompt returned, the variations searched
    \* ---- rip_all_tracks (src/src/core/rip_cd.py)
    attempted,      \* the track numbers rip_track was called with, in call order
    \* ---- the enrichment of the one file (src/src/core/enrich_metadata.py)
    enriched_with,  \* the record and track entry the last enrichment run applied to the file
    \* ---- rip_individual_tracks (src/src/core/rip_individual_track.py)
    ind,            \* the album it works on: its file names, its rip_info, the runs so far
    \* ---- multi_disc_fixer.py: MultiDiscFixer on one album directory
    mdf,            \* the album's files with their tags, album_info, and the run's position
    \* ---- discogs_cover_manager.py: one call on DiscogsAPI
    dcm             \* the call, the requests sent with their answers, the next request, the result

ripVars == <<pc, track_count, metadata, mb_metadata, found_by, user_selected, choice, album_dir,
             ripped, steps, file_names, file_tags, sidecar>>
catVars == <<cat_in, cat>>
tagVars == <<tags, op, op_in, op_ret, op_saved, op_before, op_ok, op_again, op_n>>
fsVars  == <<fs, fs_was, fs_op>>
scVars  == <<disk, sc_old, sc_new, sc_pc, sc_writer>>
batchVars == <<batch>>
promptVars == <<prompt>>
ripLogVars == <<attempted>>
enrichedVars == <<enriched_with>>
individualVars == <<ind>>
multiDiscVars == <<mdf>>
discogsVars == <<dcm>>
vars    == <<ripVars, catVars, tagVars, fsVars, scVars, batchVars, promptVars, ripLogVars, enrichedVars, individualVars, multiDiscVars, discogsVars>>

(***************************************************************************)
(* Python values                                                           *)
(***************************************************************************)
Falsy == <<>>

Truthy(v) == v /= Falsy

\* dict.get(key, default)
Get(d, k, default) == IF k \in DOMAIN d THEN d[k] ELSE default

\* dict.update(e)
Update(d, e) == [k \in DOMAIN d \cup DOMAIN e |-> IF k \in DOMAIN e THEN e[k] ELSE d[k]]

\* d[k] = v
Put(d, k, v) == [x \in DOMAIN d \cup {k} |-> IF x = k THEN v ELSE d[x]]

(***************************************************************************)
(* Python str methods, on sequences of characters                          *)
(***************************************************************************)
UpperCase == <<"A", "B", "C", "D", "E", "F", "G", "H", "I", "J", "K", "L", "M",
               "N", "O", "P", "Q", "R", "S", "T", "U", "V", "W", "X", "Y", "Z">>

LowerCase == <<"a", "b", "c", "d", "e", "f", "g", "h", "i", "j", "k", "l", "m",
               "n", "o", "p", "q", "r", "s", "t", "u", "v", "w", "x", "y", "z">>

IsUpper(c) == \E i \in 1..26 : UpperCase[i] = c

IsLower(c) == \E i \in 1..26 : LowerCase[i] = c

UpperOf(c) == IF IsLower(c) THEN UpperCase[CHOOSE i \in 1..26 : LowerCase[i] = c] ELSE c

LowerOf(c) == IF IsUpper(c) THEN LowerCase[CHOOSE i \in 1..26 : UpperCase[i] = c] ELSE c

\* str.upper()
Upper(s) == [i \in 1..Len(s) |-> UpperOf(s[i])]

\* str.lower()
Lower(s) == [i \in 1..Len(s) |-> LowerOf(s[i])]

\* str.replace(c, t) for a one-character c and a replacement string t
RECURSIVE Replace(_, _, _)
Replace(s, c, t) ==
    IF s = <<>> THEN <<>>
    ELSE (IF Head(s) = c THEN t ELSE <<Head(s)>>) \o Replace(Tail(s), c, t)

\* str.strip(): leading and trailing blanks removed
RECURSIVE LStrip(_)
LStrip(s) == IF s /= <<>> /\ Head(s) = " " THEN LStrip(Tail(s)) ELSE s

RECURSIVE RStrip(_)
RStrip(s) == IF s /= <<>> /\ s[Len(s)] = " " THEN RStrip(SubSeq(s, 1, Len(s) - 1)) ELSE s

Strip(s) == RStrip(LStrip(s))

\* c in s
Contains(s, c) == \E i \in 1..Len(s) : s[i] = c

\* x in list
InList(l, x) == \E i \in 1..Len(l) : l[i] = x

Digits == <<"0", "1", "2", "3", "4", "5", "6", "7", "8", "9">>

IsDigit(c) == \E i \in 1..10 : Digits[i] = c

DigitVal(c) == (CHOOSE i \in 1..10 : Digits[i] = c) - 1

\* re ^\d+$
AllDigits(s) == s /= <<>> /\ \A i \in 1..Len(s) : IsDigit(s[i])

\* int(s) for a string of digits
RECURSIVE ParseInt(_)
ParseInt(s) == IF s = <<>> THEN 0 ELSE 10 * ParseInt(SubSeq(s, 1, Len(s) - 1)) + DigitVal(s[Len(s)])

\* str(n) for n >= 0
RECURSIVE Str(_)
Str(n) == IF n < 10 THEN <<Digits[n + 1]>> ELSE Str(n \div 10) \o <<Digits[(n % 10) + 1]>>

\* f"{n:02d}" for n >= 0
Fmt02d(n) == IF n < 10 THEN <<"0">> \o Str(n) ELSE Str(n)

VariousArtists == <<"V", "a", "r", "i", "o", "u", "s", " ", "A", "r", "t", "i", "s", "t", "s">>

UserEntered == <<"u", "s", "e", "r", "-", "e", "n", "t", "e", "r", "e", "d">>

(***************************************************************************)
(* The external catalog (MusicBrainz): the detailed records that           *)
(* get_release_by_id returns, as nested dicts with the service's keys.     *)
(***************************************************************************)
MaxTracks == 3

\* One entry of an artist-credit list: the artist with its name and its id
Credit(name) == [artist |-> [name |-> name, id |-> <<"a", ":">> \o name]]

\* One entry of a medium's track-list; a track with its own artist credit carries it
\* on the track and on the recording.
Track(rid, disc, i, artist) ==
    LET title == <<rid, "t">> \o Str(disc) \o Str(i)
        base  == [id |-> <<rid, "k">> \o Str(disc) \o Str(i),
                  recording |-> [title |-> title, id |-> <<rid, "r">> \o Str(disc) \o Str(i)]]
    IN  IF artist = Falsy THEN base
        ELSE [id |-> base.id,
              recording |-> Put(base.recording, "artist-credit", <<Credit(artist)>>)]
             @@ ("artist-credit" :> <<Credit(artist)>>)

Medium(rid, disc, n, artist) == "track-list" :> [i \in 1..n |-> Track(rid, disc, i, artist)]

NameAb  == <<"A", "b">>
NameCQ  == <<"c", "/", "q">>
NamePq  == <<"p", "q">>
NameXy  == <<"x", " ", "y">>

ReleaseIds == {"r1", "r2", "r3", "r4", "r5", "r6"}

\* r1: one artist, one disc of 2 tracks.          r2: one artist (a '/' in the name), 3 tracks.
\* r3: two artist credits, discs of 1 and 2 tracks with per-track artists.
\* r4: one artist, 1 track, no date.              r5: a malformed record (no title), 2 tracks.
\* r6: a record without media.
ReleaseRecord(rid) ==
    CASE rid = "r1" -> [id |-> <<"r", "1">>, title |-> <<"T", "1">>, date |-> <<"1", "9", "9", "1">>]
                        @@ ("artist-credit" :> <<Credit(NameAb)>>)
                        @@ ("medium-list" :> <<Medium("1", 1, 2, Falsy)>>)
      [] rid = "r2" -> [id |-> <<"r", "2">>, title |-> <<"T", "/", "2">>, date |-> <<"1", "9", "9", "2">>]
                        @@ ("artist-credit" :> <<Credit(NameCQ)>>)
                        @@ ("medium-list" :> <<Medium("2", 1, 3, Falsy)>>)
      [] rid = "r3" -> [id |-> <<"r", "3">>, title |-> <<"T", "3">>, date |-> <<"1", "9", "9", "3">>]
                        @@ ("artist-credit" :> <<Credit(NamePq), Credit(NameAb)>>)
                        @@ ("medium-list" :> <<Medium("3", 1, 1, NamePq), Medium("3", 2, 2, NameXy)>>)
      [] rid = "r4" -> [id |-> <<"r", "4">>, title |-> <<"T", "4">>]
                        @@ ("artist-credit" :> <<Credit(NameXy)>>)
                        @@ ("medium-list" :> <<Medium("4", 1, 1, Falsy)>>)
      [] rid = "r5" -> [id |-> <<"r", "5">>, date |-> <<"1", "9", "9", "5">>]
                        @@ ("medium-list" :> <<Medium("5", 1, 2, Falsy)>>)
      [] rid = "r6" -> [id |-> <<"r", "6">>, title |-> <<"T", "6">>, date |-> <<"1", "9", "9", "6">>]
                        @@ ("artist-credit" :> <<Credit(NamePq)>>)
                        @@ ("medium-list" :> <<>>)

\* The catalog, computed once
Catalog == [rid \in ReleaseIds |-> ReleaseRecord(rid)]

\* get_release_by_id
Release(rid) == Catalog[rid]

\* The search result entry of a release (search_releases' release-list): id, title, date.
Stub(rid) == [k \in DOMAIN Release(rid) \cap {"id", "title", "date"} |-> Release(rid)[k]]

RECURSIVE SumLens(_)
SumLens(media) ==
    IF media = <<>> THEN 0
    ELSE Len(Get(Head(media), "track-list", <<>>)) + SumLens(Tail(media))

\* sum(len(medium.get('track-list', [])) for medium in release_info.get('medium-list', []))
TotalTracks(release_info) == SumLens(Get(release_info, "medium-list", <<>>))

\* The release with a given MBID
ReleaseOfId(mbid) == CHOOSE rid \in ReleaseIds : Release(rid).id = mbid

(***************************************************************************)
(* Catalog number search (CDRipper.search_musicbrainz_by_catalog)          *)
(***************************************************************************)
normalize_catalog_number(catalog) ==
    IF ~Truthy(catalog) THEN <<>>
    ELSE Upper(Replace(Replace(Strip(catalog), " ", <<>>), "-", <<>>))

\* f"{s[:k]}{sep}{s[k:]}"
InsertAt(s, k, sep) ==
    SubSeq(s, 1, IF k < Len(s) THEN k ELSE Len(s)) \o <<sep>> \o SubSeq(s, k + 1, Len(s))

\* Only the input as typed is searched
OriginalOnly(catalog_number) == <<Strip(catalog_number)>>

\* search_variations, in the order the code appends them
SearchVariations(catalog_number) ==
    LET normalized_catalog == normalize_catalog_number(catalog_number)
        original_catalog   == Strip(catalog_number)
        v1 == <<original_catalog>>
        v2 == IF normalized_catalog /= original_catalog
              THEN Append(v1, normalized_catalog) ELSE v1
        with_hyphens   == Replace(original_catalog, " ", <<"-">>)
        without_spaces == Replace(original_catalog, " ", <<>>)
        v3 == IF Contains(original_catalog, " ")
              THEN LET w == Append(v2, with_hyphens)
                   IN  IF ~InList(w, without_spaces) THEN Append(w, without_spaces) ELSE w
              ELSE v2
        v4 == IF Contains(original_catalog, "-")
              THEN Append(v3, Replace(original_catalog, "-", <<" ">>)) ELSE v3
        plain == ~Contains(original_catalog, " ") /\ ~Contains(original_catalog, "-")
                 /\ Len(normalized_catalog) >= 6
        v5 == IF plain
              THEN v4 \o [k \in 1..4 |-> InsertAt(normalized_catalog, k + 2, "-")] ELSE v4
        v6 == IF plain
              THEN v5 \o [k \in 1..4 |-> InsertAt(normalized_catalog, k + 2, " ")] ELSE v5
    IN  v6

\* "Remove duplicates while preserving order", dropping empty strings
RECURSIVE Dedup(_)
Dedup(l) ==
    IF l = <<>> THEN <<>>
    ELSE LET init == Dedup(SubSeq(l, 1, Len(l) - 1))
             last == l[Len(l)]
         IN  IF Truthy(last) /\ ~InList(init, last) THEN Append(init, last) ELSE init

UniqueVariations(catalog_number) == Dedup(SearchVariations(catalog_number))

\* The variations search_releases is called with: the loop goes on after a query that
\* raised ("except Exception ... continue")
RECURSIVE QueriedVariations(_, _, _)
QueriedVariations(variations, resp, n) ==
    IF n = 0 THEN <<>> ELSE Append(QueriedVariations(variations, resp, n - 1), variations[n])

\* A loop that ends at the first query that raises
RECURSIVE FoundUntilFailure(_, _)
FoundUntilFailure(resp, n) ==
    IF n = 0 THEN <<>>
    ELSE IF \E i \in 1..n : ~resp[i].ok THEN FoundUntilFailure(resp, n - 1)
    ELSE FoundUntilFailure(resp, n - 1) \o resp[n].list

\* found_releases: the release-lists of the variations whose query did not raise
RECURSIVE FoundReleases(_, _)
FoundReleases(resp, n) ==
    IF n = 0 THEN <<>>
    ELSE FoundReleases(resp, n - 1) \o (IF resp[n].ok THEN resp[n].list ELSE <<>>)

\* unique_releases: a dict keyed by id keeps the order of first insertion
RECURSIVE UniqueReleases(_)
UniqueReleases(found) ==
    IF found = <<>> THEN <<>>
    ELSE LET init == UniqueReleases(SubSeq(found, 1, Len(found) - 1))
             last == found[Len(found)]
         IN  IF InList(init, last) THEN init ELSE Append(init, last)

\* The ids get_release_by_id is called with: one call for each value of unique_releases,
\* whether or not an earlier call raised
FetchedIds(unique) == unique

\* A matcher without the track-count comparison: every release whose record was fetched
MatchingAnyCount(unique, tc, fetch_fail) ==
    SelectSeq(unique, LAMBDA rid : rid \notin fetch_fail)

\* matching_releases: the append comes before the log line that reads the title, so a
\* record without title is kept when its count matches
RECURSIVE MatchingReleases(_, _, _)
MatchingReleases(unique, tc, fetch_fail) ==
    IF unique = <<>> THEN <<>>
    ELSE LET rid  == Head(unique)
             rest == MatchingReleases(Tail(unique), tc, fetch_fail)
         IN  IF rid \notin fetch_fail /\ TotalTracks(Release(rid)) = tc
             THEN <<rid>> \o rest ELSE rest

\* The track dicts of _extract_release_metadata, numbered across the discs
RECURSIVE ExtractDisc(_, _, _)
ExtractDisc(track_list, disc_num, first) ==
    IF track_list = <<>> THEN <<>>
    ELSE LET track == Head(track_list)
             base  == [number |-> first, disc |-> disc_num,
                       title |-> track.recording.title,
                       length |-> Get(track.recording, "length", Falsy),
                       mbid |-> track.recording.id]
             info  == IF "artist-credit" \in DOMAIN track.recording
                         /\ Truthy(track.recording["artist-credit"])
                      THEN Put(base, "artist", track.recording["artist-credit"][1].artist.name)
                      ELSE base
         IN  <<info>> \o ExtractDisc(Tail(track_list), disc_num, first + 1)

RECURSIVE ExtractTracks(_, _, _)
ExtractTracks(media, disc_num, first) ==
    IF media = <<>> THEN <<>>
    ELSE LET tl == Get(Head(media), "track-list", <<>>)
         IN  ExtractDisc(tl, disc_num, first)
             \o ExtractTracks(Tail(media), disc_num + 1, first + Len(tl))

\* The artist of _extract_release_metadata: the one credit's name, else the sentinel
ExtractArtist(artist_credits) ==
    IF Len(artist_credits) = 1 THEN artist_credits[1].artist.name ELSE VariousArtists

\* KeyError: release_info['title'] of a record without title
RaisesKeyError(release_info) == "title" \notin DOMAIN release_info

_extract_release_metadata(release_info, catalog_number) ==
    LET media == Get(release_info, "medium-list", <<>>)
        base  == [mbid |-> release_info.id,
                  album |-> release_info.title,
                  date |-> Get(release_info, "date", <<>>),
                  country |-> Get(release_info, "country", <<>>),
                  catalog_number |-> catalog_number,
                  tracks |-> ExtractTracks(media, 1, 1),
                  disc_count |-> Len(media)]
    IN  IF "artist-credit" \in DOMAIN release_info
        THEN LET a == ExtractArtist(release_info["artist-credit"])
             IN  Put(Put(base, "artist", a), "album_artist", a)
        ELSE base

\* The function up to its outer "except Exception": [raised, value].  resp[i] is the
\* service's answer to variation i (ok = FALSE: the query raised), fetch_fail the ids
\* whose get_release_by_id raises, sel the answer at the "Select release" prompt
\* (0: Enter, k: the k-th, -1: end of input).
CatalogSearchBody(catalog_number, tc, resp, fetch_fail, sel) ==
    LET variations == UniqueVariations(catalog_number)
        found      == FoundReleases(resp, Len(variations))
        unique     == UniqueReleases(found)
        matching   == MatchingReleases(unique, tc, fetch_fail)
        selected   == IF Len(matching) > 1 /\ sel > 0 THEN matching[sel] ELSE matching[1]
    IN  IF found = <<>> \/ matching = <<>> THEN [raised |-> FALSE, value |-> Falsy]
        ELSE IF Len(matching) > 1
                /\ ((\E i \in 1..Len(matching) : RaisesKeyError(Release(matching[i]))) \/ sel = -1)
             THEN [raised |-> TRUE, value |-> Falsy]
        ELSE IF RaisesKeyError(Release(selected)) THEN [raised |-> TRUE, value |-> Falsy]
        ELSE [raised |-> FALSE,
              value |-> _extract_release_metadata(Release(selected),
                                                  normalize_catalog_number(catalog_number))]

\* except Exception as e: ... return None
ExceptReturnNone(r) == IF r.raised THEN [raised |-> FALSE, value |-> Falsy] ELSE r

search_musicbrainz_by_catalog(catalog_number, tc, resp, fetch_fail, sel) ==
    ExceptReturnNone(CatalogSearchBody(catalog_number, tc, resp, fetch_fail, sel))

(***************************************************************************)
(* Artist/album search (the part of search_musicbrainz_enhanced after the  *)
(* catalog number attempt) and the simple search                           *)
(***************************************************************************)
Unknown == <<"U", "n", "k", "n", "o", "w", "n">>

\* sep.join(names)
RECURSIVE Join(_, _)
Join(names, sep) ==
    IF names = <<>> THEN <<>>
    ELSE IF Len(names) = 1 THEN names[1]
    ELSE names[1] \o sep \o Join(Tail(names), sep)

\* A choice that never compares the track count: the first fetched record with media
RECURSIVE FirstWithMedia(_, _, _, _)
FirstWithMedia(list, tc, fetch_fail, best) ==
    IF list = <<>> THEN best
    ELSE IF Head(list) \in fetch_fail \/ ~Truthy(Get(Release(Head(list)), "medium-list", <<>>))
    THEN FirstWithMedia(Tail(list), tc, fetch_fail, best)
    ELSE <<Head(list)>>

\* best_release: the first fetched record with media whose count matches, else the
\* first fetched record with media ("Keep first match as fallback")
RECURSIVE BestRelease(_, _, _, _)
BestRelease(list, tc, fetch_fail, best) ==
    IF list = <<>> THEN best
    ELSE LET rid == Head(list)
             medium_list == Get(Release(rid), "medium-list", <<>>)
         IN  IF rid \in fetch_fail \/ ~Truthy(medium_list)
             THEN BestRelease(Tail(list), tc, fetch_fail, best)
             ELSE IF SumLens(medium_list) = tc THEN <<rid>>
             ELSE BestRelease(Tail(list), tc, fetch_fail, IF ~Truthy(best) THEN <<rid>> ELSE best)

\* The track dicts of search_musicbrainz_enhanced, numbered within each disc
EnhancedDisc(track_list, disc_num) ==
    [track_num \in 1..Len(track_list) |->
        LET track     == track_list[track_num]
            recording == Get(track, "recording", <<>>)
            credits   == Get(track, "artist-credit", <<>>)
        IN  [title |-> Get(recording, "title", <<"T", "r", "a", "c", "k", " ">> \o Fmt02d(track_num)),
             length |-> Get(track, "length", Falsy),
             disc_number |-> disc_num,
             track_number |-> track_num,
             artist |-> Join([i \in 1..Len(credits) |-> credits[i].artist.name],
                             <<" ", "&", " ">>)]]

RECURSIVE EnhancedTracks(_, _)
EnhancedTracks(media, disc_num) ==
    IF media = <<>> THEN <<>>
    ELSE EnhancedDisc(Get(Head(media), "track-list", <<>>), disc_num)
         \o EnhancedTracks(Tail(media), disc_num + 1)

\* "Get proper artist name from artist-credits": the first credit's name
EnhancedArtist(best_release, artist) ==
    IF "artist-credit" \in DOMAIN best_release /\ Len(best_release["artist-credit"]) > 0
    THEN best_release["artist-credit"][1].artist.name
    ELSE artist

EnhancedSearchBody(artist, album, tc, resp1, resp2, fetch_fail) ==
    LET list == IF resp1.ok /\ Truthy(resp1.list) THEN resp1.list ELSE resp2.list
        best == BestRelease(list, tc, fetch_fail, Falsy)
        best_release == Release(best[1])
        medium_list  == Get(best_release, "medium-list", <<>>)
    IN  IF ~resp1.ok \/ (~Truthy(resp1.list) /\ ~resp2.ok)
        THEN [raised |-> TRUE, value |-> Falsy]
        ELSE IF ~Truthy(list) \/ ~Truthy(best) THEN [raised |-> FALSE, value |-> Falsy]
        ELSE [raised |-> FALSE,
              value |-> [artist |-> EnhancedArtist(best_release, artist),
                         album |-> Get(best_release, "title", album),
                         date |-> Get(best_release, "date", Unknown),
                         mbid |-> best_release.id,
                         tracks |-> EnhancedTracks(medium_list, 1),
                         disc_count |-> Len(medium_list),
                         method |-> "musicbrainz-enhanced"]]

search_musicbrainz_enhanced(artist, album, tc, resp1, resp2, fetch_fail) ==
    ExceptReturnNone(EnhancedSearchBody(artist, album, tc, resp1, resp2, fetch_fail))

SimpleSearchBody(artist, album, resp) ==
    IF ~resp.ok THEN [raised |-> TRUE, value |-> Falsy]
    ELSE IF ~Truthy(resp.list) THEN [raised |-> FALSE, value |-> Falsy]
    ELSE LET release == Stub(resp.list[1])
         IN  [raised |-> FALSE,
              value |-> [artist |-> artist, album |-> album,
                         date |-> Get(release, "date", Unknown),
                         mbid |-> release.id,
                         method |-> "musicbrainz-simple"]]

search_musicbrainz_simple(artist, album, resp) ==
    ExceptReturnNone(SimpleSearchBody(artist, album, resp))

(***************************************************************************)
(* rip_cd (CDRipper.rip_cd), one action per step of the pipeline           *)
(***************************************************************************)
MaxDisc == 2

UserArtists == {<<"a", "b">>, <<"a", " ", "b">>, <<"p", "q">>}

UserAlbums == {<<"h", "/", "p">>}

CatalogInputs == {Falsy, <<"A", "B", "-", "1", "2">>, <<"A", " ", "1", "2">>}

AlbumTypes == {"regular", "soundtrack", "compilation"}

\* What a search query can be answered with
Responses ==
    {[ok |-> FALSE, list |-> <<>>], [ok |-> TRUE, list |-> <<>>],
     [ok |-> TRUE, list |-> <<"r4">>], [ok |-> TRUE, list |-> <<"r1", "r2">>],
     [ok |-> TRUE, list |-> <<"r6", "r5", "r3", "r2">>]}

FetchFailures == {{}, {"r2", "r5"}}

NoCat == [called |-> FALSE, unique |-> <<>>, raised |-> FALSE, value |-> Falsy,
          resp |-> <<>>, fetch_fail |-> {}, sel |-> 0, queried |-> <<>>, fetched |-> <<>>]

\* get_user_metadata
UserMetadata(album_type, artist_in, album, disc_number, catalog_number) ==
    LET artist == IF album_type = "regular" THEN artist_in ELSE VariousArtists
    IN  [artist |-> artist, album |-> album, album_artist |-> artist,
         date |-> Unknown, disc_number |-> disc_number, album_type |-> album_type,
         catalog_number |-> catalog_number, mbid |-> UserEntered, method |-> "manual"]

\* The album directory rip_cd creates and reorganize_album_directory targets:
\* output_dir is the empty path
AlbumDirOf(md) ==
    LET safe_album == Replace(md.album, "/", <<"_">>)
    IN  IF Get(md, "album_type", Falsy) = "soundtrack"
        THEN <<"Soundtracks", safe_album>>
        ELSE <<Replace(md.artist, "/", <<"_">>), safe_album>>

NoChoice == [asked |-> FALSE, answer |-> Falsy, original |-> Falsy, mb |-> Falsy]

\* check_cd_presence, get_track_count, get_user_metadata, album_dir.mkdir
Start ==
    /\ pc = "start"
    /\ \E present \in BOOLEAN, n \in 0..MaxTracks, t \in AlbumTypes, a \in UserArtists,
          al \in UserAlbums, d \in 1..MaxDisc, c \in CatalogInputs :
          IF ~present \/ n = 0
          THEN /\ pc' = "failed"
               /\ UNCHANGED <<track_count, metadata, album_dir>>
          ELSE /\ pc' = "rip"
               /\ track_count' = n
               /\ metadata' = UserMetadata(t, a, al, d, c)
               /\ album_dir' = AlbumDirOf(metadata')
    /\ UNCHANGED <<mb_metadata, found_by, user_selected, choice, ripped>>
    /\ UNCHANGED <<steps, file_names, file_tags, sidecar, catVars, tagVars, fsVars, scVars, batchVars, promptVars, ripLogVars, enrichedVars, individualVars, multiDiscVars, discogsVars>>

\* A loop over the tracks that ends at the first track rip_track fails on
RECURSIVE RipUntilFailure(_, _)
RipUntilFailure(n, ok) ==
    IF n = 0 THEN [attempted |-> <<>>, successful_tracks |-> 0, files |-> {}]
    ELSE LET before == RipUntilFailure(n - 1, ok)
         IN  IF \E m \in 1..(n - 1) : m \notin ok THEN before
             ELSE [attempted |-> Append(before.attempted, [track_num |-> n, ok |-> n \in ok]),
                   successful_tracks |-> before.successful_tracks + (IF n \in ok THEN 1 ELSE 0),
                   files |-> before.files \cup (IF n \in ok THEN {n} ELSE {})]

\* rip_all_tracks on a CD of n tracks of which rip_track captures those in ok: the calls
\* of rip_track with their results, successful_tracks, the tracks that have a file
RECURSIVE rip_all_tracks(_, _)
rip_all_tracks(n, ok) ==
    IF n = 0 THEN [attempted |-> <<>>, successful_tracks |-> 0, files |-> {}]
    ELSE LET before == rip_all_tracks(n - 1, ok)
         IN  [attempted |-> Append(before.attempted, [track_num |-> n, ok |-> n \in ok]),
              successful_tracks |-> before.successful_tracks + (IF n \in ok THEN 1 ELSE 0),
              files |-> before.files \cup (IF n \in ok THEN {n} ELSE {})]

\* "STEP 1: Rip all tracks first": any subset of the tracks may be captured;
\* "if successful_tracks == 0: raise CDRipperError"
RipAllTracks ==
    /\ pc = "rip"
    /\ \E ok \in SUBSET (1..track_count) :
          LET r == rip_all_tracks(track_count, ok)
          IN  /\ ripped' = r.files
              /\ attempted' = r.attempted
              /\ pc' = IF r.successful_tracks = 0 THEN "failed"
                       ELSE IF Truthy(metadata.catalog_number) THEN "search_catalog"
                       ELSE "search_enhanced"
    /\ UNCHANGED <<track_count, metadata, mb_metadata, found_by, user_selected, choice,
                   album_dir>>
    /\ UNCHANGED <<steps, file_names, file_tags, sidecar, catVars, tagVars, fsVars, scVars,
                   batchVars, promptVars, enrichedVars, individualVars, multiDiscVars, discogsVars>>

\* search_musicbrainz_enhanced, first part: "if catalog_number: ... search_musicbrainz_by_catalog"
SearchCatalog ==
    /\ pc = "search_catalog"
    /\ \E resp \in [1..Len(UniqueVariations(metadata.catalog_number)) -> Responses],
          fetch_fail \in FetchFailures, sel \in -1..2 :
       \E matching \in {MatchingReleases(UniqueReleases(FoundReleases(resp, Len(resp))),
                                          track_count, fetch_fail)} :
          /\ IF Len(matching) > 1 THEN sel <= Len(matching) ELSE sel = 0
          /\ \E r \in {search_musicbrainz_by_catalog(metadata.catalog_number, track_count,
                                                     resp, fetch_fail, sel)} :
              /\ mb_metadata' = r.value
              /\ user_selected' = (Truthy(r.value) /\ Len(matching) > 1)
              /\ found_by' = IF Truthy(r.value) THEN "catalog" ELSE "none"
              /\ pc' = IF r.raised THEN "failed"
                       ELSE IF Truthy(r.value) THEN "resolve" ELSE "search_enhanced"
    /\ UNCHANGED <<track_count, metadata, choice, album_dir, ripped>>
    /\ UNCHANGED <<steps, file_names, file_tags, sidecar, catVars, tagVars, fsVars, scVars, batchVars, promptVars, ripLogVars, enrichedVars, individualVars, multiDiscVars, discogsVars>>

\* search_musicbrainz_enhanced, second part: the artist/album search
SearchEnhanced ==
    /\ pc = "search_enhanced"
    /\ \E resp1 \in Responses, resp2 \in Responses, fetch_fail \in FetchFailures :
          \E r \in {search_musicbrainz_enhanced(metadata.artist, metadata.album, track_count,
                                                resp1, resp2, fetch_fail)} :
              /\ mb_metadata' = r.value
              /\ found_by' = IF Truthy(r.value) THEN "enhanced" ELSE "none"
              /\ pc' = IF r.raised THEN "failed"
                       ELSE IF Truthy(r.value) THEN "resolve" ELSE "search_simple"
    /\ UNCHANGED <<track_count, metadata, user_selected, choice, album_dir, ripped>>
    /\ UNCHANGED <<steps, file_names, file_tags, sidecar, catVars, tagVars, fsVars, scVars, batchVars, promptVars, ripLogVars, enrichedVars, individualVars, multiDiscVars, discogsVars>>

\* "Fallback to simple search"
SearchSimple ==
    /\ pc = "search_simple"
    /\ \E resp \in Responses :
          \E r \in {search_musicbrainz_simple(metadata.artist, metadata.album, resp)} :
              /\ mb_metadata' = r.value
              /\ found_by' = IF Truthy(r.value) THEN "simple" ELSE "none"
              /\ pc' = IF r.raised THEN "failed"
                       ELSE IF Truthy(r.value) THEN "resolve" ELSE "tag"
    /\ UNCHANGED <<track_count, metadata, user_selected, choice, album_dir, ripped>>
    /\ UNCHANGED <<steps, file_names, file_tags, sidecar, catVars, tagVars, fsVars, scVars, batchVars, promptVars, ripLogVars, enrichedVars, individualVars, multiDiscVars, discogsVars>>

\* CDRipper.is_same_artist_different_language
is_same_artist_different_language(name1, name2) ==
    Replace(Lower(name1), " ", <<>>) = Replace(Lower(name2), " ", <<>>)

\* The prompt condition of rip_cd for a release that is not a soundtrack
NamesDiffer(original_artist, mb_artist) ==
    /\ Lower(original_artist) /= Lower(mb_artist)
    /\ ~is_same_artist_different_language(original_artist, mb_artist)

\* A resolution without the soundtrack override: the catalog data, artist included,
\* replaces what the user typed
ResolvedWithoutOverride(md, mb, answer) ==
    Update(md, mb)

\* "Handle artist name choice based on album type": the metadata after the update
ResolvedMetadata(md, mb, answer) ==
    LET original_artist == md.artist
        mb_artist       == Get(mb, "artist", original_artist)
    IN  IF Get(md, "album_type", Falsy) = "soundtrack"
        THEN Update(md, Put(Put(mb, "artist", VariousArtists), "album_artist", VariousArtists))
        ELSE IF NamesDiffer(original_artist, mb_artist)
        THEN IF answer = <<"2">>
             THEN Update(md, mb)
             ELSE Update(md, Put(Put(mb, "artist", original_artist), "album_artist", original_artist))
        ELSE Update(md, mb)

\* What reorganize_album_directory returns: the target, or the old directory when
\* nothing changes or when a step of the move raises
ReorganizedDir(old_album_dir, new_metadata, raises) ==
    LET new_album_dir == AlbumDirOf(new_metadata)
    IN  IF old_album_dir = new_album_dir \/ raises THEN old_album_dir ELSE new_album_dir

Answers == {<<"1">>, <<"2">>, <<>>}

\* "if mb_metadata:" artist name choice, metadata.update, reorganize_album_directory
Resolve ==
    /\ pc = "resolve"
    /\ \E answer \in Answers, raises \in BOOLEAN :
          LET original_artist == metadata.artist
              mb_artist == Get(mb_metadata, "artist", original_artist)
              asked == metadata.album_type /= "soundtrack" /\ NamesDiffer(original_artist, mb_artist)
          IN  /\ asked \/ answer = <<>>
              /\ choice' = [asked |-> asked, answer |-> answer,
                            original |-> original_artist, mb |-> mb_artist]
              /\ metadata' = ResolvedMetadata(metadata, mb_metadata, answer)
              /\ album_dir' = ReorganizedDir(album_dir, metadata', raises)
              /\ steps' = IF album_dir' /= album_dir THEN Append(steps, "organize") ELSE steps
    /\ pc' = "tag"
    /\ UNCHANGED <<track_count, mb_metadata, found_by, user_selected, ripped>>
    /\ UNCHANGED <<file_names, file_tags, sidecar, catVars, tagVars, fsVars, scVars, batchVars, promptVars, ripLogVars, enrichedVars, individualVars, multiDiscVars, discogsVars>>


(***************************************************************************)
(* search_musicbrainz_by_catalog called on its own                         *)
(***************************************************************************)
InitCatalog ==
    /\ batch = Falsy /\ prompt = Falsy
    /\ cat_in \in {[catalog_number |-> c, track_count |-> n] :
                      c \in CatalogInputs \ {Falsy}, n \in 1..MaxTracks}
    /\ cat = NoCat
    /\ pc = "start" /\ track_count = 0 /\ metadata = Falsy /\ mb_metadata = Falsy
    /\ found_by = "none" /\ user_selected = FALSE /\ choice = NoChoice
    /\ album_dir = Falsy /\ ripped = {}
    /\ dcm = Falsy
    /\ mdf = Falsy
    /\ ind = Falsy
    /\ enriched_with = Falsy
    /\ attempted = Falsy
    /\ steps = <<>> /\ file_names = Falsy /\ file_tags = Falsy /\ sidecar = Falsy
    /\ tags = Falsy /\ op = "none" /\ op_in = Falsy
    /\ op_ret = FALSE /\ op_saved = FALSE /\ op_before = Falsy
    /\ op_ok = TRUE /\ op_again = FALSE /\ op_n = 0
    /\ fs = Falsy /\ fs_was = Falsy /\ fs_op = Falsy
    /\ disk = Falsy /\ sc_old = Falsy /\ sc_new = Falsy /\ sc_pc = "idle" /\ sc_writer = "none"

CatalogCall ==
    /\ ~cat.called
    /\ \E resp \in [1..Len(UniqueVariations(cat_in.catalog_number)) -> Responses],
          fetch_fail \in FetchFailures, sel \in -1..2 :
       \E unique \in {UniqueReleases(FoundReleases(resp, Len(resp)))} :
          /\ LET n == Len(MatchingReleases(unique, cat_in.track_count, fetch_fail))
             IN  IF n > 1 THEN sel <= n ELSE sel = 0
          /\ \E r \in {search_musicbrainz_by_catalog(cat_in.catalog_number, cat_in.track_count,
                                                     resp, fetch_fail, sel)} :
                cat' = [called |-> TRUE, unique |-> unique, raised |-> r.raised, value |-> r.value,
                        resp |-> resp, fetch_fail |-> fetch_fail, sel |-> sel,
                        queried |-> QueriedVariations(UniqueVariations(cat_in.catalog_number),
                                                      resp, Len(resp)),
                        fetched |-> FetchedIds(unique)]
    /\ UNCHANGED <<cat_in, ripVars, tagVars, fsVars, scVars, batchVars, promptVars, ripLogVars, enrichedVars, individualVars, multiDiscVars, discogsVars>>

SpecCatalog == InitCatalog /\ [][CatalogCall]_vars

\* The detailed record behind a returned metadata dict
RecordOf(md) == Release(ReleaseOfId(md.mbid))

\* C1: search_musicbrainz_by_catalog never raises; what it returns is the metadata of a
\* release it found whose detailed record has exactly track_count tracks over all its
\* media; and when every release found has another count, a sole result included, it
\* returns None.
CatalogTrackCountGate ==
    cat.called =>
        /\ ~cat.raised
        /\ Truthy(cat.value) =>
              /\ \E i \in 1..Len(cat.unique) : Release(cat.unique[i]).id = cat.value.mbid
              /\ TotalTracks(RecordOf(cat.value)) = cat_in.track_count
              /\ Len(cat.value.tracks) = cat_in.track_count
        /\ (\A i \in 1..Len(cat.unique) :
                TotalTracks(Release(cat.unique[i])) /= cat_in.track_count)
              => cat.value = Falsy

\* A sole result one track short of, or one track over, the CD was found and refused
CatalogSoleMismatchRefused ==
    /\ cat.called /\ Len(cat.unique) = 1 /\ cat.value = Falsy
    /\ cat_in.track_count = 2
    /\ TotalTracks(Release(cat.unique[1])) \in {1, 3}

\* The service's answers with the failures taken out: a query that raised answers with
\* an empty list, a release whose fetch raises is in no list
WithoutFailures(resp, fetch_fail) ==
    [i \in DOMAIN resp |->
        [ok |-> TRUE,
         list |-> IF resp[i].ok
                  THEN SelectSeq(resp[i].list, LAMBDA rid : rid \notin fetch_fail)
                  ELSE <<>>]]

\* C19: every variation is queried, whichever queries raised; every release id found
\* by some variation has its record fetched exactly once; and the search returns what
\* it returns when the queries that raised find nothing and the releases whose fetch
\* raised are not found at all.
CatalogSearchDegrades ==
    cat.called =>
        /\ cat.queried = UniqueVariations(cat_in.catalog_number)
        /\ \A i \in 1..Len(cat.resp) : cat.resp[i].ok =>
              \A k \in 1..Len(cat.resp[i].list) :
                 Cardinality({j \in 1..Len(cat.fetched) :
                                 cat.fetched[j] = cat.resp[i].list[k]}) = 1
        /\ \A j \in 1..Len(cat.fetched) :
              \E i \in 1..Len(cat.resp) : cat.resp[i].ok /\ InList(cat.resp[i].list, cat.fetched[j])
        /\ [raised |-> cat.raised, value |-> cat.value]
              = search_musicbrainz_by_catalog(cat_in.catalog_number, cat_in.track_count,
                                              WithoutFailures(cat.resp, cat.fetch_fail), {},
                                              cat.sel)

\* The first query raised, a later one found two releases, the fetch of one of them
\* raised, and the other was returned
DegradedSearchStillFinds ==
    /\ cat.called /\ ~cat.resp[1].ok
    /\ \E j \in 1..Len(cat.fetched) : cat.fetched[j] \in cat.fetch_fail
    /\ Truthy(cat.value) /\ cat.value.mbid = <<"r", "1">>

(***************************************************************************)
(* Properties of a rip_cd run                                              *)
(***************************************************************************)
\* rip_cd is past the metadata step
Resolved == pc \in {"tag", "add_metadata", "sidecar", "done"}

\* A catalog release was bound to the rip
Bound == Resolved /\ found_by /= "none" /\ metadata.mbid /= UserEntered

\* The recording titles of a record, over all its media in order
RECURSIVE RecordingTitles(_)
RecordingTitles(media) ==
    IF media = <<>> THEN <<>>
    ELSE LET track_list == Get(Head(media), "track-list", <<>>)
         IN  [i \in 1..Len(track_list) |-> track_list[i].recording.title]
             \o RecordingTitles(Tail(media))

\* metadata['tracks'] is the record's track list
TracksFromRecord(md, rec) ==
    /\ "tracks" \in DOMAIN md
    /\ [i \in 1..Len(md.tracks) |-> md.tracks[i].title]
          = RecordingTitles(Get(rec, "medium-list", <<>>))

\* metadata's title, date and release id are the record's, where the record has them
TitleFromRecord(md, rec) == "title" \in DOMAIN rec => md.album = rec.title
DateAndIdFromRecord(md, rec) ==
    /\ md.mbid = rec.id
    /\ "date" \in DOMAIN rec => md.date = rec.date

\* C2 (as stated): on no search path is a release bound to the rip without the user
\* selecting it unless the total track count of its record equals the CD's track count.
GateNeverRelaxed ==
    (Bound /\ ~user_selected) => TotalTracks(RecordOf(metadata)) = track_count

\* What a returned metadata dict says beyond the description of the release itself
ReleaseFields == {"artist", "album", "date", "mbid", "tracks", "disc_count"}
Indication(value) == [k \in DOMAIN value \ ReleaseFields |-> value[k]]

\* The values search_musicbrainz_enhanced returns for a release whose track count is
\* the expected one
ExactEnhancedResults(artist, album) ==
    LET calls == {[tc |-> tc,
                   r  |-> search_musicbrainz_enhanced(artist, album, tc, resp1, resp2, fetch_fail)] :
                     tc \in 1..MaxTracks, resp1 \in Responses, resp2 \in Responses,
                     fetch_fail \in FetchFailures}
    IN  {c.r.value : c \in {d \in calls : /\ Truthy(d.r.value)
                                          /\ TotalTracks(RecordOf(d.r.value)) = d.tc}}

\* C20 (as stated): when the artist/album search of search_musicbrainz_enhanced returns
\* a release whose total track count is not the expected one, the returned value carries
\* an indication that no value returned for an exact track-count match carries.
FallbackToldFromExact ==
    (pc = "resolve" /\ found_by = "enhanced"
        /\ TotalTracks(RecordOf(mb_metadata)) /= track_count) =>
        \A exact \in ExactEnhancedResults(metadata.artist, metadata.album) :
            Indication(exact) /= Indication(mb_metadata)

ArtistChoiceDrivesBoth ==
    (Resolved /\ choice.asked) =>
        LET chosen == IF choice.answer = <<"2">> THEN choice.mb ELSE choice.original
        IN  /\ metadata.artist = chosen
            /\ metadata.album_artist = chosen
            /\ \/ album_dir[1] = Replace(chosen, "/", <<"_">>)
               \/ album_dir /= AlbumDirOf(metadata)

\* The credited artists of a record
CreditNames(rec) ==
    LET credits == Get(rec, "artist-credit", <<>>)
    IN  [i \in 1..Len(credits) |-> credits[i].artist.name]

\* C8 (as stated): the metadata a search returns has the name of the single credited
\* artist when the record credits exactly one, and "Various Artists" when it credits more
\* than one, on the catalog path and on the enhanced path alike.
ArtistFromCredits ==
    (found_by \in {"catalog", "enhanced"} /\ Truthy(mb_metadata)) =>
        LET names == CreditNames(RecordOf(mb_metadata))
        IN  /\ Len(names) = 1 => mb_metadata.artist = names[1]
            /\ Len(names) > 1 => mb_metadata.artist = VariousArtists

(***************************************************************************)
(* One FLAC file: its stored Vorbis comments and the operations that write *)
(* them.  tags maps each field present to its list of values.              *)
(***************************************************************************)
MaxOps == 2

\* audio[F] = value (mutagen keeps a list of values per field)
SetTag(audio, F, value) == Put(audio, F, <<value>>)

\* audio.get(F, [None])[0]
FirstOf(audio, F) == IF F \in DOMAIN audio /\ audio[F] /= <<>> THEN audio[F][1] ELSE Falsy

\* dict.get(key) of an int value, 0 when the key is absent
GetInt(d, k) == IF k \in DOMAIN d THEN d[k] ELSE 0

\* A field written whenever a value is desired, whatever the file holds
ReconcileAlways(st, F, desired) ==
    IF Truthy(desired) THEN [audio |-> SetTag(st.audio, F, desired), updated |-> TRUE] ELSE st

\* apply_metadata_standard, one field:
\* "if desired: if audio.get(F) != [desired]: audio[F] = [desired]; updated = True"
Reconcile(st, F, desired) ==
    IF Truthy(desired) /\ Get(st.audio, F, Falsy) /= <<desired>>
    THEN [audio |-> SetTag(st.audio, F, desired), updated |-> TRUE]
    ELSE st

\* apply_metadata_standard: f"{disc_number:02d}-{track_number:02d}"
TrackNumberStandard(disc_number, track_number) ==
    Fmt02d(disc_number) \o <<"-">> \o Fmt02d(track_number)

\* "Required fields"
ReconcileRequired(st, md) ==
    LET a == Reconcile(st, "ALBUM", Get(md, "album", Falsy))
        b == Reconcile(a, "ALBUMARTIST", Get(md, "album_artist", Falsy))
    IN  Reconcile(b, "DATE", Get(md, "date", Falsy))

\* "Track-specific information"
ReconcileTrack(st, md, ti) ==
    IF ~Truthy(ti) THEN st
    ELSE LET disc  == GetInt(ti, "disc_number")
             track == GetInt(ti, "track_number")
             a == Reconcile(st, "TITLE", Get(ti, "title", Falsy))
             b == Reconcile(a, "ARTIST", Get(ti, "artist", Falsy))
             c == IF disc /= 0 /\ track /= 0
                  THEN Reconcile(b, "TRACKNUMBER", TrackNumberStandard(disc, track)) ELSE b
             d == IF disc /= 0 THEN Reconcile(c, "DISCNUMBER", Str(disc)) ELSE c
         IN  IF GetInt(md, "disc_count") /= 0
             THEN Reconcile(d, "TOTALDISCS", Str(GetInt(md, "disc_count"))) ELSE d

\* "MusicBrainz IDs"
ReconcileIds(st, md, ti) ==
    LET a == Reconcile(st, "MUSICBRAINZ_ALBUMID", Get(md, "mbid", Falsy))
        b == Reconcile(a, "MUSICBRAINZ_ARTISTID", Get(md, "album_artist_id", Falsy))
        c == Reconcile(b, "MUSICBRAINZ_RELEASEGROUPID", Get(md, "release_group_id", Falsy))
        d == Reconcile(c, "MUSICBRAINZ_TRACKID", Get(ti, "recording_id", Falsy))
    IN  Reconcile(d, "MUSICBRAINZ_RELEASETRACKID", Get(ti, "track_id", Falsy))

\* "Extended fields", "Sort names", "ISRC"
ReconcileExtended(st, md, ti) ==
    LET a == Reconcile(st, "LABEL", Get(md, "label", Falsy))
        b == Reconcile(a, "CATALOGNUMBER", Get(md, "catalog_number", Falsy))
        c == Reconcile(b, "BARCODE", Get(md, "barcode", Falsy))
        d == Reconcile(c, "COUNTRY", Get(md, "country", Falsy))
        e == Reconcile(d, "MEDIA", Get(md, "media", Falsy))
        f == Reconcile(e, "ORIGINALDATE", Get(md, "original_date", Falsy))
        g == Reconcile(f, "ALBUMARTISTSORT", Get(md, "album_artist_sort", Falsy))
        h == Reconcile(g, "ARTISTSORT", Get(ti, "artist_sort", Falsy))
    IN  Reconcile(h, "ISRC", Get(ti, "isrc", Falsy))

EncoderName == <<"F", "L", "A", "C", " ", "1", ".", "3", ".", "x">>

\* "Technical fields", "Add total tracks"
ReconcileTechnical(st, md) ==
    LET a == IF ~Truthy(Get(st.audio, "ENCODER", Falsy))
             THEN [audio |-> SetTag(st.audio, "ENCODER", EncoderName), updated |-> TRUE]
             ELSE st
        total_tracks == Len(Get(md, "tracks", <<>>))
    IN  IF total_tracks > 0 THEN Reconcile(a, "TOTALTRACKS", Str(total_tracks)) ELSE a

\* FLACMetadataEnricher.apply_metadata_standard up to "Save if updated": the tags in
\* memory and the updated flag
apply_metadata_standard(audio, enhanced_metadata, track_info) ==
    ReconcileTechnical(
        ReconcileExtended(
            ReconcileIds(
                ReconcileTrack(
                    ReconcileRequired([audio |-> audio, updated |-> FALSE], enhanced_metadata),
                    enhanced_metadata, track_info),
                enhanced_metadata, track_info),
            enhanced_metadata, track_info),
        enhanced_metadata)

(***************************************************************************)
(* Track number normaliser (src/src/tools/track_normalizer.py)             *)
(***************************************************************************)
\* re ^(\d+)-(\d+)$ : the positions of a hyphen with digits only on both sides
HyphenSplits(s) ==
    {k \in 2..(Len(s) - 1) : /\ s[k] = "-"
                             /\ AllDigits(SubSeq(s, 1, k - 1))
                             /\ AllDigits(SubSeq(s, k + 1, Len(s)))}

\* TrackNumberNormalizer.analyze_track_format; -1 stands for None
analyze_track_format(tracknumber) ==
    IF ~Truthy(tracknumber) THEN [format |-> "missing", disc |-> -1, track |-> -1]
    ELSE IF HyphenSplits(tracknumber) /= {}
    THEN LET k == CHOOSE k \in HyphenSplits(tracknumber) : TRUE
         IN  [format |-> "disc-track",
              disc |-> ParseInt(SubSeq(tracknumber, 1, k - 1)),
              track |-> ParseInt(SubSeq(tracknumber, k + 1, Len(tracknumber)))]
    ELSE IF AllDigits(tracknumber)
    THEN [format |-> "simple", disc |-> -1, track |-> ParseInt(tracknumber)]
    ELSE [format |-> "invalid", disc |-> -1, track |-> -1]

\* int(current_discnumber) raises ValueError (the values here are digits, or hold a
\* letter or a slash)
IntRaises(s) == ~AllDigits(s)

\* analyze_album for an album of this one file: the track_info built for the file, the
\* album's needs_fix, and album_info['tracks'], which lacks the file when
\* int(current_discnumber) raised before the append
analyze_album(audio) ==
    LET current_tracknumber == FirstOf(audio, "TRACKNUMBER")
        current_discnumber  == FirstOf(audio, "DISCNUMBER")
        f == analyze_track_format(current_tracknumber)
        fix_disc == f.format = "simple" /\ ~Truthy(current_discnumber)
        track_info == [current_tracknumber |-> current_tracknumber,
                       current_discnumber |-> current_discnumber,
                       format_type |-> f.format,
                       needs_fix |-> f.format = "disc-track" \/ fix_disc,
                       recommended_tracknumber |->
                           IF f.format = "disc-track" THEN Fmt02d(f.track) ELSE Falsy,
                       recommended_discnumber |->
                           IF f.format = "disc-track" THEN Str(f.disc)
                           ELSE IF fix_disc THEN <<"1">> ELSE Falsy]
    IN  [needs_fix |-> track_info.needs_fix,
         tracks |-> IF Truthy(current_discnumber) /\ IntRaises(current_discnumber)
                    THEN <<>> ELSE <<track_info>>]

\* fix_album_tracks, the body of "for track in album_info['tracks']" with dry_run off:
\* the tags in memory and changes_made
FixTrack(audio, track) ==
    LET fix_tn == Truthy(track.recommended_tracknumber)
        fix_dn == /\ Truthy(track.recommended_discnumber)
                  /\ track.current_discnumber /= track.recommended_discnumber
        a == IF fix_tn THEN SetTag(audio, "TRACKNUMBER", track.recommended_tracknumber)
             ELSE audio
    IN  [audio |-> IF fix_dn THEN SetTag(a, "DISCNUMBER", track.recommended_discnumber) ELSE a,
         changes_made |-> fix_tn \/ fix_dn]

\* fix_album_tracks(album_info, dry_run): the tags in memory, whether audio.save() is
\* called, and fixed_count when the save succeeds
fix_album_tracks(audio, album_info, dry_run) ==
    IF ~album_info.needs_fix \/ album_info.tracks = <<>> \/ ~album_info.tracks[1].needs_fix
    THEN [audio |-> audio, saves |-> FALSE, fixed_count |-> 0]
    ELSE LET r == FixTrack(audio, album_info.tracks[1])
         IN  IF dry_run THEN [audio |-> audio, saves |-> FALSE,
                              fixed_count |-> IF r.changes_made THEN 1 ELSE 0]
             ELSE [audio |-> r.audio, saves |-> r.changes_made,
                   fixed_count |-> IF r.changes_made THEN 1 ELSE 0]

(***************************************************************************)
(* Rip-time tagging (CDRipper.add_enhanced_metadata, add_basic_metadata)   *)
(***************************************************************************)
\* A file of the album as the taggers see it: disc is the disc prefix of its name after
\* rename_track_files (0: still Track_NN.flac), num the track number in its name, pos
\* its position in the sorted list, total the number of files.
\* re.search(r'01-(\d+)\.', name) matches the names with disc prefix 01.
ActualTrackNum(file) == IF file.disc = 1 THEN file.num ELSE file.pos

HasKeys(d, keys) == keys \subseteq DOMAIN d

\* A test of the release id that takes the 'user-entered' marker for a release
HasMbid(md) == Truthy(Get(md, "mbid", Falsy))

\* metadata.get('mbid') and metadata['mbid'] != 'user-entered'
HasRelease(md) == Truthy(Get(md, "mbid", Falsy)) /\ md.mbid /= UserEntered

TrackTitle(n) == <<"T", "r", "a", "c", "k", " ">> \o Fmt02d(n)

\* The body of add_enhanced_metadata's loop up to audio.save(): [raised, audio]
add_enhanced_metadata(audio, md, file) ==
    LET n      == ActualTrackNum(file)
        tracks == Get(md, "tracks", <<>>)
        known  == n <= Len(tracks)
        a == SetTag(SetTag(audio, "ALBUM", md.album), "DATE", md.date)
        b == IF Truthy(Get(md, "album_artist", Falsy))
             THEN SetTag(a, "ALBUMARTIST", md.album_artist) ELSE a
        c == IF known /\ "disc_number" \in DOMAIN tracks[n]
             THEN LET t  == tracks[n]
                      c1 == SetTag(b, "TRACKNUMBER", Fmt02d(t.track_number))
                      c2 == SetTag(c1, "DISCNUMBER", Str(t.disc_number))
                      c3 == SetTag(c2, "TOTALDISCS", Str(Get(md, "disc_count", 1)))
                      c4 == SetTag(c3, "TITLE", t.title)
                  IN  SetTag(c4, "ARTIST",
                             IF Truthy(Get(t, "artist", Falsy)) THEN t.artist ELSE md.artist)
             ELSE LET c1 == SetTag(b, "TRACKNUMBER", Fmt02d(n))
                      c2 == SetTag(c1, "DISCNUMBER", <<"1">>)
                      c3 == SetTag(c2, "TOTALDISCS", <<"1">>)
                      c4 == SetTag(c3, "ARTIST", md.artist)
                  IN  SetTag(c4, "TITLE", IF known THEN tracks[n].title ELSE TrackTitle(n))
        d == SetTag(c, "TOTALTRACKS", Str(file.total))
    IN  IF ~HasKeys(md, {"album", "date", "artist"})
           \/ (known /\ ~HasKeys(tracks[n], {"title"}))
           \/ (known /\ "disc_number" \in DOMAIN tracks[n] /\ "track_number" \notin DOMAIN tracks[n])
        THEN [raised |-> TRUE, audio |-> audio]
        ELSE [raised |-> FALSE,
              audio |-> IF HasRelease(md) THEN SetTag(d, "MUSICBRAINZ_ALBUMID", md.mbid) ELSE d]

UnknownArtist == <<"U", "n", "k", "n", "o", "w", "n", " ", "A", "r", "t", "i", "s", "t">>

\* The body of add_basic_metadata's loop up to audio.save(); track_artist and
\* track_title are what the user types at the two prompts
add_basic_metadata(audio, md, file, track_artist, track_title) ==
    LET n == ActualTrackNum(file)
        a == SetTag(SetTag(audio, "ALBUM", md.album), "DATE", md.date)
        b == SetTag(a, "TRACKNUMBER", Fmt02d(n))
        c == SetTag(b, "DISCNUMBER", Str(Get(md, "disc_number", 1)))
        d == SetTag(SetTag(c, "TOTALDISCS", <<"1">>), "TOTALTRACKS", Str(file.total))
        e == IF Truthy(Get(md, "album_artist", Falsy))
             THEN SetTag(d, "ALBUMARTIST", md.album_artist) ELSE d
        f == IF Get(md, "album_type", "none") \in {"soundtrack", "compilation"}
             THEN SetTag(e, "ARTIST", IF Truthy(Strip(track_artist)) THEN Strip(track_artist)
                                      ELSE UnknownArtist)
             ELSE SetTag(e, "ARTIST", md.artist)
        g == SetTag(f, "TITLE", IF Truthy(Strip(track_title)) THEN Strip(track_title)
                                ELSE TrackTitle(n))
    IN  IF ~HasKeys(md, {"album", "date"})
           \/ (Get(md, "album_type", "none") \notin {"soundtrack", "compilation"}
               /\ ~HasKeys(md, {"artist"}))
        THEN [raised |-> TRUE, audio |-> audio]
        ELSE [raised |-> FALSE,
              audio |-> IF HasRelease(md) THEN SetTag(g, "MUSICBRAINZ_ALBUMID", md.mbid) ELSE g]

(***************************************************************************)
(* Correction (src/src/tools/metadata_corrector.py)                        *)
(***************************************************************************)
\* The track artist of extract_detailed_metadata
DetailedTrackArtist(track, album_artist) ==
    LET credits == Get(track, "artist-credit", <<>>)
    IN  IF Len(credits) = 1 THEN credits[1].artist.name
        ELSE IF Len(credits) > 1
        THEN Join([i \in 1..Len(credits) |-> credits[i].artist.name], <<" ", "&", " ">>)
        ELSE album_artist

RECURSIVE DetailedDisc(_, _, _, _)
DetailedDisc(track_list, disc_num, first, album_artist) ==
    IF track_list = <<>> THEN <<>>
    ELSE LET track == Head(track_list)
         IN  <<[number |-> first, disc |-> disc_num,
                title |-> track.recording.title,
                length |-> Get(track.recording, "length", Falsy),
                mbid |-> track.recording.id,
                artist |-> DetailedTrackArtist(track, album_artist),
                track_number |-> first, disc_number |-> disc_num]>>
             \o DetailedDisc(Tail(track_list), disc_num, first + 1, album_artist)

RECURSIVE DetailedTracks(_, _, _, _)
DetailedTracks(media, disc_num, first, album_artist) ==
    IF media = <<>> THEN <<>>
    ELSE LET tl == Get(Head(media), "track-list", <<>>)
         IN  DetailedDisc(tl, disc_num, first, album_artist)
             \o DetailedTracks(Tail(media), disc_num + 1, first + Len(tl), album_artist)

\* MetadataCorrector.extract_detailed_metadata, for a record with title and artist-credit
extract_detailed_metadata(release_info) ==
    LET media  == Get(release_info, "medium-list", <<>>)
        artist == ExtractArtist(release_info["artist-credit"])
    IN  [mbid |-> release_info.id, album |-> release_info.title,
         date |-> Get(release_info, "date", <<>>),
         country |-> Get(release_info, "country", <<>>),
         tracks |-> DetailedTracks(media, 1, 1, artist),
         disc_count |-> Len(media), method |-> "metadata-corrector",
         artist |-> artist, album_artist |-> artist]

\* The body of apply_metadata_to_flacs' loop up to audio.save(), for the file at list
\* position i: [raised, audio]
apply_metadata_to_flacs(audio, md, i) ==
    LET tracks     == Get(md, "tracks", <<>>)
        track_info == IF i <= Len(tracks) THEN tracks[i] ELSE Falsy
        a == SetTag(SetTag(audio, "ALBUM", md.album), "ALBUMARTIST", md.album_artist)
        b == SetTag(SetTag(a, "DATE", md.date), "MUSICBRAINZ_ALBUMID", md.mbid)
        c == IF Truthy(track_info)
             THEN LET c1 == SetTag(SetTag(b, "TITLE", track_info.title), "ARTIST", track_info.artist)
                      c2 == SetTag(c1, "TRACKNUMBER",
                                   Fmt02d(track_info.disc) \o <<"-">> \o Fmt02d(track_info.number))
                      c3 == SetTag(c2, "DISCNUMBER", Str(track_info.disc))
                  IN  SetTag(c3, "MUSICBRAINZ_TRACKID", track_info.mbid)
             ELSE b
    IN  IF ~HasKeys(md, {"album", "album_artist", "date", "mbid", "disc_count"})
           \/ (Truthy(track_info)
               /\ ~HasKeys(track_info, {"title", "artist", "disc", "number", "mbid"}))
        THEN [raised |-> TRUE, audio |-> audio]
        ELSE [raised |-> FALSE,
              audio |-> SetTag(SetTag(c, "TOTALDISCS", Str(md.disc_count)),
                               "TOTALTRACKS", Str(Len(tracks)))]

(***************************************************************************)
(* The operations on one file                                              *)
(***************************************************************************)
\* What a file of the collection may hold before an operation
TagSamples ==
    {Falsy,
     "TRACKNUMBER" :> <<<<"0", "2", "-", "0", "7">>>>,
     ("TRACKNUMBER" :> <<<<"0", "2", "-", "0", "7">>>>) @@ ("DISCNUMBER" :> <<<<"1">>>>),
     ("TRACKNUMBER" :> <<<<"1", "-", "1", "2">>>>) @@ ("DISCNUMBER" :> <<<<"1", "/", "2">>>>),
     "TRACKNUMBER" :> <<<<"0", "7">>>>,
     ("TRACKNUMBER" :> <<<<"7">>>>) @@ ("DISCNUMBER" :> <<<<"2">>>>)
        @@ ("ENCODER" :> <<<<"e">>>>) @@ ("ALBUM" :> <<<<"T", "1">>, <<"T", "1">>>>),
     "TRACKNUMBER" :> <<<<"7", "/", "9">>>>}

\* Records as enhance_musicbrainz_metadata builds them: a two-disc release with every
\* field, a release with little more than its title, and {} for a failed lookup
EnhancedSamples ==
    {[album |-> <<"T", "1">>, date |-> <<"1", "9", "9", "1">>, country |-> <<"X", "W">>,
      status |-> <<"O">>, script |-> Falsy, language |-> Falsy,
      label |-> <<"L">>, catalog_number |-> <<"A", "B", "-", "1", "2">>,
      barcode |-> <<"4", "2">>, media |-> <<"C", "D">>,
      release_group_id |-> <<"g", "1">>, original_date |-> <<"1", "9", "9", "0">>,
      primary_type |-> <<"A">>,
      album_artist |-> NameAb, album_artist_id |-> <<"a", "1">>, album_artist_sort |-> <<"b", "A">>,
      tracks |-> <<[disc_number |-> 1, track_number |-> 1, title |-> <<"t", "1">>,
                    length |-> Falsy, track_id |-> <<"k", "1">>, recording_id |-> <<"r", "1">>],
                   [disc_number |-> 2, track_number |-> 2, title |-> <<"t", "2">>,
                    length |-> Falsy, track_id |-> <<"k", "2">>, recording_id |-> <<"r", "2">>,
                    artists |-> <<[name |-> NamePq, id |-> <<"a", "2">>, sort_name |-> <<"q", "p">>]>>,
                    artist |-> NamePq, artist_id |-> <<"a", "2">>, artist_sort |-> <<"q", "p">>,
                    isrc |-> <<"I", "7">>]>>],
     [album |-> <<"T", "4">>, date |-> Falsy, country |-> Falsy, status |-> Falsy,
      script |-> Falsy, language |-> Falsy, barcode |-> Falsy, tracks |-> <<>>],
     Falsy}

\* The metadata of a rip when the files are tagged: as typed by the user, and updated
\* from a release found by catalog number, by the enhanced search, by the simple search
RipMetadataSamples ==
    LET typed == UserMetadata("regular", NamePq, <<"h", "/", "p">>, 1, Falsy)
        ost   == UserMetadata("soundtrack", NamePq, <<"h", "/", "p">>, 1, Falsy)
        found == [ok |-> TRUE, list |-> <<"r3">>]
    IN  {typed, ost,
         Update(typed, _extract_release_metadata(Release("r3"), <<"A", "B", "1", "2">>)),
         Update(typed, search_musicbrainz_enhanced(NamePq, <<"h", "/", "p">>, 3,
                                                   found, found, {}).value),
         Update(typed, search_musicbrainz_simple(NamePq, <<"h", "/", "p">>, found).value)}

\* The metadata the corrector applies
CorrectorSamples == {extract_detailed_metadata(Release("r1")), extract_detailed_metadata(Release("r3"))}

\* The files of an album of MaxTracks tracks; a file's position in the sorted list is
\* its track number, or one less when an earlier track failed to rip
Files ==
    {f \in [disc : 0..MaxDisc, num : 1..MaxTracks, pos : 1..MaxTracks, total : {MaxTracks}] :
        f.pos \in {f.num - 1, f.num}}

TypedAnswers == {<<>>, <<" ", "n">>}

\* An operation ran on the file: audio is what it built in memory, saves whether it
\* calls audio.save(), io_fails whether that call raises.  The stored tags change only
\* through a save that succeeds.
Ran(name, input, audio, saves, ret, io_fails, again) ==
    /\ io_fails => saves
    /\ tags' = IF saves /\ ~io_fails THEN audio ELSE tags
    /\ op' = name /\ op_in' = input /\ op_before' = tags
    /\ op_ret' = ret
    /\ op_saved' = (saves /\ ~io_fails)
    /\ op_ok' = ~io_fails
    /\ op_again' = again
    /\ op_n' = op_n + 1

\* FLACMetadataEnricher.apply_metadata_standard(flac_path, enhanced_metadata, track_info)
\* with self.dry_run as given
EnrichFile(md, ti, dry_run, io_fails, again) ==
    LET r == apply_metadata_standard(tags, md, ti)
        input == [enhanced_metadata |-> md, track_info |-> ti, dry_run |-> dry_run]
    IN  /\ IF dry_run
           THEN Ran("apply_metadata_standard", input, tags, FALSE, TRUE, io_fails, again)
           ELSE Ran("apply_metadata_standard", input, r.audio, r.updated,
                    r.updated /\ ~io_fails, io_fails, again)
        /\ enriched_with' = IF dry_run \/ io_fails THEN enriched_with
                            ELSE [enhanced_metadata |-> md, track_info |-> ti]

\* apply_metadata_standard has six places to stop before "Save if updated": before the
\* first comparison and after each group of fields
Stages == 0..5

\* The tags in memory, and the updated flag, when apply_metadata_standard has compared
\* the first stage groups of fields
StandardUpTo(audio, md, ti, stage) ==
    LET s0 == [audio |-> audio, updated |-> FALSE]
        s1 == ReconcileRequired(s0, md)
        s2 == ReconcileTrack(s1, md, ti)
        s3 == ReconcileIds(s2, md, ti)
        s4 == ReconcileExtended(s3, md, ti)
    IN  CASE stage = 0 -> s0
          [] stage = 1 -> s1
          [] stage = 2 -> s2
          [] stage = 3 -> s3
          [] stage = 4 -> s4
          [] OTHER -> ReconcileTechnical(s4, md)

\* A writer that saves after every group of fields
SavedAfterEachGroup(audio, md, ti, stage) == StandardUpTo(audio, md, ti, stage).audio

\* The file's stored tags when apply_metadata_standard stops at a stage: audio.save() is
\* called in one place, after the last comparison, so nothing has been stored
StoredWhenStopped(audio, md, ti, stage) == audio

\* apply_metadata_standard stops before its save: an exception sends it to its except
\* clause, which returns False, or the process is killed
InterruptStandard ==
    /\ op_n < MaxOps
    /\ \E md \in EnhancedSamples, stage \in Stages, killed \in BOOLEAN :
          \E ti \in {Falsy} \cup {Get(md, "tracks", <<>>)[i] : i \in 1..Len(Get(md, "tracks", <<>>))} :
              /\ tags' = StoredWhenStopped(tags, md, ti, stage)
              /\ op' = "apply_metadata_standard stopped"
              /\ op_in' = [enhanced_metadata |-> md, track_info |-> ti, dry_run |-> FALSE,
                           stage |-> stage, killed |-> killed]
              /\ op_before' = tags
              /\ op_ret' = FALSE /\ op_saved' = FALSE /\ op_ok' = FALSE /\ op_again' = FALSE
              /\ op_n' = op_n + 1
    /\ UNCHANGED <<ripVars, catVars, fsVars, scVars, batchVars, promptVars, ripLogVars, enrichedVars, individualVars, multiDiscVars, discogsVars>>

\* enrich_album_metadata applies the standard to a file, with the track entry at the
\* file's position or None
ApplyStandard ==
    /\ op_n < MaxOps
    /\ \E md \in EnhancedSamples, dry_run \in BOOLEAN, io_fails \in BOOLEAN :
          \E ti \in {Falsy} \cup {Get(md, "tracks", <<>>)[i] : i \in 1..Len(Get(md, "tracks", <<>>))} :
              EnrichFile(md, ti, dry_run, io_fails, FALSE)
    /\ UNCHANGED <<ripVars, catVars, fsVars, scVars, batchVars, promptVars, ripLogVars, individualVars, multiDiscVars, discogsVars>>

\* The enrichment is run again on the file with the same record and track entry
ApplyStandardAgain ==
    /\ op = "apply_metadata_standard" /\ op_ok /\ ~op_again
    /\ \E io_fails \in BOOLEAN :
          EnrichFile(op_in.enhanced_metadata, op_in.track_info, op_in.dry_run, io_fails, TRUE)
    /\ UNCHANGED <<ripVars, catVars, fsVars, scVars, batchVars, promptVars, ripLogVars, individualVars, multiDiscVars, discogsVars>>

\* The album is enriched again after the normalizer has run on it: the sidecar and the
\* catalog record are what they were, so the file gets the same record and track entry
EnrichAfterNormalize ==
    /\ op = "fix_album_tracks" /\ op_ok /\ ~op_in.dry_run
    /\ Truthy(enriched_with)
    /\ EnrichFile(enriched_with.enhanced_metadata, enriched_with.track_info, FALSE, FALSE, FALSE)
    /\ UNCHANGED <<ripVars, catVars, fsVars, scVars, batchVars, promptVars, ripLogVars, individualVars, multiDiscVars, discogsVars>>

\* track_normalizer: analyze_album, then fix_album_tracks(album_info, dry_run)
Normalize ==
    /\ op_n < MaxOps
    /\ \E dry_run \in BOOLEAN, io_fails \in BOOLEAN :
          LET r == fix_album_tracks(tags, analyze_album(tags), dry_run)
          IN  Ran("fix_album_tracks", [dry_run |-> dry_run], r.audio, r.saves,
                  IF io_fails THEN 0 ELSE r.fixed_count, io_fails, FALSE)
    /\ UNCHANGED <<ripVars, catVars, fsVars, scVars, batchVars, promptVars, ripLogVars, enrichedVars, individualVars, multiDiscVars, discogsVars>>

\* rip_cd tags a file it has just ripped: metadata.get('tracks') decides between
\* add_enhanced_metadata and add_basic_metadata
AddEnhancedMetadata ==
    /\ op_n = 0 /\ tags = Falsy
    /\ \E md \in RipMetadataSamples, file \in Files, io_fails \in BOOLEAN :
          /\ Truthy(Get(md, "tracks", Falsy))
          /\ LET r == add_enhanced_metadata(tags, md, file)
             IN  Ran("add_enhanced_metadata", [metadata |-> md, file |-> file],
                     r.audio, ~r.raised, Falsy, io_fails, FALSE)
    /\ UNCHANGED <<ripVars, catVars, fsVars, scVars, batchVars, promptVars, ripLogVars, enrichedVars, individualVars, multiDiscVars, discogsVars>>

AddBasicMetadata ==
    /\ op_n = 0 /\ tags = Falsy
    /\ \E md \in RipMetadataSamples, file \in Files, io_fails \in BOOLEAN,
          track_artist \in TypedAnswers, track_title \in TypedAnswers :
          /\ ~Truthy(Get(md, "tracks", Falsy))
          /\ md.album_type \in {"soundtrack", "compilation"} \/ track_artist = <<>>
          /\ LET r == add_basic_metadata(tags, md, file, track_artist, track_title)
             IN  Ran("add_basic_metadata", [metadata |-> md, file |-> file],
                     r.audio, ~r.raised, Falsy, io_fails, FALSE)
    /\ UNCHANGED <<ripVars, catVars, fsVars, scVars, batchVars, promptVars, ripLogVars, enrichedVars, individualVars, multiDiscVars, discogsVars>>

\* metadata_corrector applies the metadata of the release the user selected
ApplyCorrection ==
    /\ op_n < MaxOps
    /\ \E md \in CorrectorSamples, i \in 1..MaxTracks, io_fails \in BOOLEAN :
          LET r == apply_metadata_to_flacs(tags, md, i)
          IN  Ran("apply_metadata_to_flacs", [metadata |-> md, i |-> i],
                  r.audio, ~r.raised, ~r.raised /\ ~io_fails, io_fails, FALSE)
    /\ UNCHANGED <<ripVars, catVars, fsVars, scVars, batchVars, promptVars, ripLogVars, enrichedVars, individualVars, multiDiscVars, discogsVars>>

TagsNext ==
    \/ InterruptStandard
    \/ EnrichAfterNormalize
    \/ ApplyStandard
    \/ ApplyStandardAgain
    \/ Normalize
    \/ AddEnhancedMetadata
    \/ AddBasicMetadata
    \/ ApplyCorrection

InitTags ==
    /\ batch = Falsy /\ prompt = Falsy
    /\ tags \in TagSamples
    /\ op = "none" /\ op_in = Falsy /\ op_ret = FALSE /\ op_saved = FALSE /\ op_before = Falsy
    /\ op_ok = TRUE /\ op_again = FALSE /\ op_n = 0
    /\ pc = "start" /\ track_count = 0 /\ metadata = Falsy /\ mb_metadata = Falsy
    /\ found_by = "none" /\ user_selected = FALSE /\ choice = NoChoice
    /\ album_dir = Falsy /\ ripped = {}
    /\ dcm = Falsy
    /\ mdf = Falsy
    /\ ind = Falsy
    /\ enriched_with = Falsy
    /\ attempted = Falsy
    /\ steps = <<>> /\ file_names = Falsy /\ file_tags = Falsy /\ sidecar = Falsy
    /\ cat_in = Falsy /\ cat = NoCat
    /\ fs = Falsy /\ fs_was = Falsy /\ fs_op = Falsy
    /\ disk = Falsy /\ sc_old = Falsy /\ sc_new = Falsy /\ sc_pc = "idle" /\ sc_writer = "none"

SpecTags == InitTags /\ [][TagsNext]_vars

(***************************************************************************)
(* Properties of the tag writers                                           *)
(***************************************************************************)
\* C3: with dry_run off, once apply_metadata_standard has been applied to a file, applying
\* it again with the same enhanced_metadata and track_info changes no tag field, does
\* not save, and returns False.
TagReconciliationIdempotent ==
    (op = "apply_metadata_standard" /\ op_again /\ ~op_in.dry_run) =>
        /\ tags = op_before
        /\ ~op_saved
        /\ op_ret = FALSE

\* The second application, to a file that held an ENCODER and a plain track number and
\* on which the first application had set the track fields
ReappliedToEnrichedFile ==
    /\ op = "apply_metadata_standard" /\ op_again /\ ~op_in.dry_run
    /\ Truthy(op_in.track_info)
    /\ "ISRC" \in DOMAIN tags /\ "LABEL" \in DOMAIN tags
    /\ tags["ENCODER"] = <<<<"e">>>>

\* C5 (as stated): after the normaliser has fixed an album with dry_run off (and saving
\* did not fail), a file whose TRACKNUMBER was D-T has TRACKNUMBER T in two digits and
\* DISCNUMBER the decimal D; a file with a plain numeric TRACKNUMBER and no DISCNUMBER
\* has DISCNUMBER "1" and its TRACKNUMBER unchanged.
LegacyNumberingMigrated ==
    (op = "fix_album_tracks" /\ ~op_in.dry_run /\ op_ok) =>
        LET was == FirstOf(op_before, "TRACKNUMBER")
        IN  /\ \A k \in HyphenSplits(was) :
                  /\ Get(tags, "TRACKNUMBER", Falsy)
                        = <<Fmt02d(ParseInt(SubSeq(was, k + 1, Len(was))))>>
                  /\ Get(tags, "DISCNUMBER", Falsy) = <<Str(ParseInt(SubSeq(was, 1, k - 1)))>>
            /\ (AllDigits(was) /\ "DISCNUMBER" \notin DOMAIN op_before) =>
                  /\ Get(tags, "DISCNUMBER", Falsy) = <<<<"1">>>>
                  /\ Get(tags, "TRACKNUMBER", Falsy) = op_before["TRACKNUMBER"]

\* The tag writers of the toolset other than the normaliser
TagWriters == {"add_enhanced_metadata", "add_basic_metadata", "apply_metadata_standard",
               "apply_metadata_to_flacs"}

\* C6 (as stated): when a tag writer has saved a file and set its TRACKNUMBER, every
\* value of TRACKNUMBER consists of digits only.
NoCombinedTrackNumber ==
    (/\ op \in TagWriters /\ op_saved
     /\ Get(tags, "TRACKNUMBER", Falsy) /= Get(op_before, "TRACKNUMBER", Falsy)) =>
        \A i \in 1..Len(tags["TRACKNUMBER"]) : AllDigits(tags["TRACKNUMBER"][i])

\* What apply_metadata_standard had changed in memory when the last call stopped
PendingWhenStopped ==
    StandardUpTo(op_before, op_in.enhanced_metadata, op_in.track_info, op_in.stage).audio

EnrichNormalizeFixpoint ==
    [][(/\ op = "fix_album_tracks" /\ op_ok /\ ~op_in.dry_run /\ Truthy(enriched_with)
        /\ op' \in {"apply_metadata_standard", "fix_album_tracks"}
        /\ ~op_in'.dry_run)
          => tags' = tags]_vars

(***************************************************************************)
(* rip_cd after the metadata is resolved: renaming, tagging, the sidecar   *)
(***************************************************************************)
\* The file of ripped track n as the tag writers see it: the disc number of its new
\* name, its track number, its position in the sorted list, the number of files
RipFile(n) ==
    [disc |-> Get(metadata, "disc_number", 1), num |-> n,
     pos |-> Cardinality({m \in ripped : m <= n}), total |-> Cardinality(ripped)]

\* The name rip_all_tracks gives the file of track n: f"Track_{track_num:02d}.flac"
TrackFileName(n) == <<"T", "r", "a", "c", "k", "_">> \o Fmt02d(n) \o <<".", "f", "l", "a", "c">>

\* A match that never succeeds: the index is always taken from the position
TrackNumberNoMatch(name) == -1

\* re.search(r'Track_(\d+)\.flac', name) on a name that starts with Track_:
\* int(match.group(1)), or -1 when there is no match
TrackNumberIn(name) ==
    LET ends == {k \in 7..Len(name) :
                    /\ AllDigits(SubSeq(name, 7, k))
                    /\ k + 5 <= Len(name)
                    /\ SubSeq(name, k + 1, k + 5) = <<".", "f", "l", "a", "c">>}
    IN  IF Len(name) >= 6 /\ SubSeq(name, 1, 6) = <<"T", "r", "a", "c", "k", "_">> /\ ends /= {}
        THEN ParseInt(SubSeq(name, 7, CHOOSE k \in ends : TRUE))
        ELSE -1

\* "Sanitize filename"
Sanitize(s) ==
    LET a == Replace(Replace(Replace(s, "/", <<"_">>), "\\", <<"_">>), ":", <<"_">>)
        b == Replace(Replace(Replace(a, "?", <<>>), "*", <<>>), "\"", <<"'">>)
    IN  Replace(Replace(Replace(b, "<", <<>>), ">", <<>>), "|", <<"_">>)

\* CDRipper.clean_artist_name
clean_artist_name(artist) ==
    LET stripped == Strip(artist)
    IN  IF stripped = <<>> \/ Replace(Replace(stripped, "&", <<>>), " ", <<>>) = <<>>
        THEN UnknownArtist
        ELSE stripped

\* rename_track_files, the body of its loop for the file called name at position pos
\* (0-based) of the sorted listing: the new name, or the old one when a lookup raises
RenamedName(name, pos, md, disc_number) ==
    LET tracks == Get(md, "tracks", <<>>)
        number == TrackNumberIn(name)
        track_index == IF number >= 0 THEN number - 1 ELSE pos
        actual_track_num == IF number >= 0 THEN number ELSE pos + 1
        known == track_index >= 0 /\ track_index < Len(tracks)
        track_title == IF known THEN tracks[track_index + 1].title
                       ELSE TrackTitle(actual_track_num)
        prefix == Fmt02d(disc_number) \o <<"-">> \o Fmt02d(actual_track_num) \o <<".", " ">>
    IN  IF known /\ "title" \notin DOMAIN tracks[track_index + 1]
        THEN name
        ELSE IF known /\ Truthy(Get(tracks[track_index + 1], "artist", Falsy))
                /\ Get(md, "album_type", Falsy) \in {"soundtrack", "compilation"}
        THEN prefix \o Sanitize(clean_artist_name(tracks[track_index + 1].artist))
                \o <<" ", "-", " ">> \o Sanitize(track_title) \o <<".", "f", "l", "a", "c">>
        ELSE prefix \o Sanitize(track_title) \o <<".", "f", "l", "a", "c">>

\* Cover art download, then rename_track_files: every Track_NN.flac gets its new name
RenameFiles ==
    /\ pc = "tag"
    /\ file_names' = [n \in ripped |->
                         RenamedName(TrackFileName(n), Cardinality({m \in ripped : m < n}),
                                     metadata, Get(metadata, "disc_number", 1))]
    /\ steps' = Append(steps, "rename")
    /\ pc' = "add_metadata"
    /\ UNCHANGED <<track_count, metadata, mb_metadata, found_by, user_selected, choice,
                   album_dir, ripped, file_tags, sidecar>>
    /\ UNCHANGED <<catVars, tagVars, fsVars, scVars, batchVars, promptVars, ripLogVars, enrichedVars, individualVars, multiDiscVars, discogsVars>>

\* add_enhanced_metadata when the metadata has tracks, add_basic_metadata otherwise; a
\* file on which the writer raises keeps the empty tags it was ripped with
AddMetadata ==
    /\ pc = "add_metadata"
    /\ \E track_artist \in TypedAnswers, track_title \in TypedAnswers :
          LET enhanced == Truthy(Get(metadata, "tracks", Falsy))
          IN  /\ enhanced => (track_artist = <<>> /\ track_title = <<>>)
              /\ metadata.album_type \in {"soundtrack", "compilation"} \/ track_artist = <<>>
              /\ file_tags' =
                    [n \in ripped |->
                        IF enhanced
                        THEN add_enhanced_metadata(Falsy, metadata, RipFile(n)).audio
                        ELSE add_basic_metadata(Falsy, metadata, RipFile(n),
                                                track_artist, track_title).audio]
    /\ steps' = Append(steps, "tag")
    /\ pc' = "sidecar"
    /\ UNCHANGED <<track_count, metadata, mb_metadata, found_by, user_selected, choice,
                   album_dir, ripped, file_names, sidecar>>
    /\ UNCHANGED <<catVars, tagVars, fsVars, scVars, batchVars, promptVars, ripLogVars, enrichedVars, individualVars, multiDiscVars, discogsVars>>

\* "Save metadata file for reference", eject, "return successful_tracks > 0"
Finish ==
    /\ pc = "sidecar"
    /\ sidecar' = [metadata |-> metadata, tracks_ripped |-> Cardinality(ripped),
                   total_tracks |-> track_count]
    /\ steps' = Append(steps, "sidecar")
    /\ pc' = "done"
    /\ UNCHANGED <<track_count, metadata, mb_metadata, found_by, user_selected, choice,
                   album_dir, ripped, file_names, file_tags>>
    /\ UNCHANGED <<catVars, tagVars, fsVars, scVars, batchVars, promptVars, ripLogVars, enrichedVars, individualVars, multiDiscVars, discogsVars>>

(***************************************************************************)
(* enrich_album_metadata on the album rip_cd has written                   *)
(***************************************************************************)
MaxEnrich == 2

RetroactiveScan == <<"r", "e", "t", "r", "o", "a", "c", "t", "i", "v", "e", "-", "s", "c", "a", "n">>

\* FLACMetadataEnricher.get_enhanced_metadata_from_rip_info, on a sidecar that loads
get_enhanced_metadata_from_rip_info(rip_info) ==
    LET md == Get(rip_info, "metadata", <<>>)
    IN  [album |-> Get(md, "album", Falsy),
         album_artist |-> Get(md, "album_artist", Get(md, "artist", Falsy)),
         date |-> Get(md, "date", Falsy),
         disc_count |-> Get(md, "disc_count", 1),
         album_type |-> Get(md, "album_type", "regular"),
         mbid |-> Get(md, "mbid", Falsy),
         tracks |-> Get(md, "tracks", <<>>),
         catalog_number |-> Get(md, "catalog_number", Falsy),
         method |-> Get(md, "method", "unknown")]

\* enhance_musicbrainz_metadata, "Track artist information": the keys a recording with
\* an artist-credit adds to its track entry
EnrichedTrackArtist(recording) ==
    IF "artist-credit" \notin DOMAIN recording THEN <<>>
    ELSE LET credits == recording["artist-credit"]
             track_artists == [i \in 1..Len(credits) |->
                                 [name |-> credits[i].artist.name, id |-> credits[i].artist.id,
                                  sort_name |-> Get(credits[i].artist, "sort-name", Falsy)]]
         IN  IF track_artists = <<>> THEN [artists |-> track_artists]
             ELSE [artists |-> track_artists, artist |-> track_artists[1].name,
                   artist_id |-> track_artists[1].id, artist_sort |-> track_artists[1].sort_name]

\* enhance_musicbrainz_metadata, "Track-specific information": track_num runs on from
\* one disc to the next
RECURSIVE EnrichedTracks(_, _, _)
EnrichedTracks(media, disc_num, track_num) ==
    IF media = <<>> THEN <<>>
    ELSE LET track_list == Get(Head(media), "track-list", <<>>)
         IN  [i \in 1..Len(track_list) |->
                 LET track == track_list[i]
                     recording == Get(track, "recording", <<>>)
                 IN  [disc_number |-> disc_num, track_number |-> track_num + i - 1,
                      title |-> Get(recording, "title", Falsy),
                      length |-> Get(track, "length", Falsy),
                      track_id |-> track.id, recording_id |-> recording.id]
                     @@ EnrichedTrackArtist(recording)
                     @@ (IF Truthy(Get(recording, "isrc-list", <<>>))
                         THEN [isrc |-> recording["isrc-list"][1]] ELSE <<>>)]
             \o EnrichedTracks(Tail(media), disc_num + 1, track_num + Len(track_list))

\* A subscript of enhance_musicbrainz_metadata raises KeyError on this record
EnhanceRaises(release_info) ==
    \/ "release-group" \in DOMAIN release_info /\ "id" \notin DOMAIN release_info["release-group"]
    \/ /\ Truthy(Get(release_info, "artist-credit", <<>>))
       /\ ~({"name", "id"} \subseteq DOMAIN release_info["artist-credit"][1].artist)
    \/ \E d \in 1..Len(Get(release_info, "medium-list", <<>>)) :
          LET track_list == Get(release_info["medium-list"][d], "track-list", <<>>)
          IN  \E i \in 1..Len(track_list) :
                 \/ "id" \notin DOMAIN track_list[i]
                 \/ "id" \notin DOMAIN Get(track_list[i], "recording", <<>>)
                 \/ \E c \in 1..Len(Get(track_list[i].recording, "artist-credit", <<>>)) :
                       ~({"name", "id"} \subseteq
                            DOMAIN track_list[i].recording["artist-credit"][c].artist)

\* FLACMetadataEnricher.enhance_musicbrainz_metadata(mbid); {} when the lookup raises
enhance_musicbrainz_metadata(mbid, lookup_fails) ==
    IF ~Truthy(mbid) \/ mbid \in {UserEntered, RetroactiveScan} THEN Falsy
    ELSE IF lookup_fails \/ ~(\E rid \in ReleaseIds : Release(rid).id = mbid) THEN Falsy
    ELSE LET release_info == Release(ReleaseOfId(mbid))
             text  == Get(release_info, "text-representation", <<>>)
             labels == Get(release_info, "label-info-list", <<>>)
             media_list == Get(release_info, "medium-list", <<>>)
         IN  IF EnhanceRaises(release_info) THEN Falsy
             ELSE [album |-> Get(release_info, "title", Falsy),
                   date |-> Get(release_info, "date", Falsy),
                   country |-> Get(release_info, "country", Falsy),
                   status |-> Get(release_info, "status", Falsy),
                   script |-> Get(text, "script", Falsy),
                   language |-> Get(text, "language", Falsy),
                   barcode |-> Get(release_info, "barcode", Falsy),
                   tracks |-> EnrichedTracks(media_list, 1, 1)]
                  @@ (IF Truthy(labels)
                      THEN [catalog_number |-> Get(labels[1], "catalog-number", Falsy)]
                           @@ (IF "label" \in DOMAIN labels[1]
                               THEN [label |-> Get(labels[1].label, "name", Falsy)] ELSE <<>>)
                      ELSE <<>>)
                  @@ (IF "asin" \in DOMAIN release_info THEN [asin |-> release_info.asin] ELSE <<>>)
                  @@ (IF Truthy(media_list)
                      THEN [media |-> Get(media_list[1], "format", <<"C", "D">>)] ELSE <<>>)
                  @@ (IF "release-group" \in DOMAIN release_info
                      THEN LET rg == release_info["release-group"]
                           IN  [release_group_id |-> rg.id,
                                original_date |-> Get(rg, "first-release-date", Falsy),
                                primary_type |-> Get(rg, "primary-type", Falsy)]
                               @@ (IF "secondary-type-list" \in DOMAIN rg
                                   THEN [secondary_types |-> rg["secondary-type-list"]] ELSE <<>>)
                      ELSE <<>>)
                  @@ (IF Truthy(Get(release_info, "artist-credit", <<>>))
                      THEN LET main_artist == release_info["artist-credit"][1].artist
                           IN  [album_artist |-> main_artist.name,
                                album_artist_id |-> main_artist.id,
                                album_artist_sort |-> Get(main_artist, "sort-name", Falsy)]
                      ELSE <<>>)

\* enrich_album_metadata, "Merge MusicBrainz data (prefer MB data for most fields)"
MergeMusicBrainz(enhanced_metadata, mb_md) ==
    IF ~Truthy(mb_md) THEN enhanced_metadata
    ELSE [k \in DOMAIN enhanced_metadata \cup {x \in DOMAIN mb_md : Truthy(mb_md[x])} |->
             IF k \in DOMAIN mb_md /\ Truthy(mb_md[k]) THEN mb_md[k] ELSE enhanced_metadata[k]]

\* The metadata enrich_album_metadata applies to the files of an album with this sidecar
EnrichmentMetadata(rip_info, lookup_fails) ==
    LET enhanced_metadata == get_enhanced_metadata_from_rip_info(rip_info)
    IN  IF Truthy(enhanced_metadata.mbid)
        THEN MergeMusicBrainz(enhanced_metadata,
                              enhance_musicbrainz_metadata(enhanced_metadata.mbid, lookup_fails))
        ELSE enhanced_metadata

\* sorted(album_dir.glob("*.flac")): the 0-based position of the file of track n; the
\* renamed files ("dd-NN. ...") sort before the files still called Track_NN.flac
EnrichPosition(n) ==
    LET renamed(m) == file_names[m] /= TrackFileName(m)
    IN  Cardinality({m \in DOMAIN file_names :
                        \/ renamed(m) /\ ~renamed(n)
                        \/ renamed(m) = renamed(n) /\ m < n})

\* enrich_album_metadata(album_dir) with dry_run False on the directory rip_cd wrote,
\* every file loading and saving
EnrichAlbum ==
    /\ pc \in {"done", "enriched"}
    /\ Cardinality({i \in 1..Len(steps) : steps[i] = "enrich"}) < MaxEnrich
    /\ \E lookup_fails \in BOOLEAN :
          LET md == EnrichmentMetadata(sidecar, lookup_fails)
              tracks == Get(md, "tracks", <<>>)
          IN  file_tags' =
                 [n \in DOMAIN file_tags |->
                     apply_metadata_standard(
                         file_tags[n], md,
                         IF EnrichPosition(n) < Len(tracks) THEN tracks[EnrichPosition(n) + 1]
                         ELSE Falsy).audio]
    /\ steps' = Append(steps, "enrich")
    /\ pc' = "enriched"
    /\ UNCHANGED <<track_count, metadata, mb_metadata, found_by, user_selected, choice,
                   album_dir, ripped, file_names, sidecar>>
    /\ UNCHANGED <<catVars, tagVars, fsVars, scVars, batchVars, promptVars, ripLogVars, enrichedVars, individualVars, multiDiscVars, discogsVars>>

RipNext ==
    \/ EnrichAlbum
    \/ Start
    \/ RipAllTracks
    \/ SearchCatalog
    \/ SearchEnhanced
    \/ SearchSimple
    \/ Resolve
    \/ RenameFiles
    \/ AddMetadata
    \/ Finish

InitRip ==
    /\ batch = Falsy /\ prompt = Falsy
    /\ pc = "start" /\ track_count = 0 /\ metadata = Falsy /\ mb_metadata = Falsy
    /\ found_by = "none" /\ user_selected = FALSE /\ choice = NoChoice
    /\ album_dir = Falsy /\ ripped = {}
    /\ dcm = Falsy
    /\ mdf = Falsy
    /\ ind = Falsy
    /\ enriched_with = Falsy
    /\ attempted = Falsy
    /\ steps = <<>> /\ file_names = Falsy /\ file_tags = Falsy /\ sidecar = Falsy
    /\ cat_in = Falsy /\ cat = NoCat
    /\ tags = Falsy /\ op = "none" /\ op_in = Falsy
    /\ op_ret = FALSE /\ op_saved = FALSE /\ op_before = Falsy
    /\ op_ok = TRUE /\ op_again = FALSE /\ op_n = 0
    /\ fs = Falsy /\ fs_was = Falsy /\ fs_op = Falsy
    /\ disk = Falsy /\ sc_old = Falsy /\ sc_new = Falsy /\ sc_pc = "idle" /\ sc_writer = "none"

SpecRip == InitRip /\ [][RipNext]_vars

\* The calls of rip_track that returned True
Successes == {i \in 1..Len(attempted) : attempted[i].ok}

\* C21: rip_all_tracks calls rip_track once for every track number 1..N, in increasing
\* order, whatever the earlier calls returned; a run in which some track was captured
\* does not fail; and the sidecar holds tracks_ripped = the number of captured tracks
\* and total_tracks = N, both N when every track was captured.
EveryTrackAttempted ==
    /\ pc \notin {"start", "rip"} =>
          /\ Len(attempted) = track_count
          /\ \A i \in 1..Len(attempted) : attempted[i].track_num = i
          /\ ripped = {attempted[i].track_num : i \in Successes}
    /\ pc = "failed" => Successes = {}
    /\ pc = "done" =>
          /\ sidecar.tracks_ripped = Cardinality(Successes)
          /\ sidecar.total_tracks = track_count
          /\ (\A i \in 1..Len(attempted) : attempted[i].ok) =>
                (sidecar.tracks_ripped = track_count /\ sidecar.total_tracks = track_count)

\* A run that failed on track 1, captured track 2 and wrote its sidecar
RippedAfterFailedTrack ==
    /\ pc = "done" /\ Len(attempted) >= 2
    /\ ~attempted[1].ok /\ attempted[2].ok
    /\ sidecar.tracks_ripped < sidecar.total_tracks

\* C22 (as stated): on a soundtrack album bound to a catalog release, a file that holds
\* ALBUMARTIST 'Various Artists' after rip_cd or after an enrichment run still holds it
\* after the next enrichment run.
SoundtrackSurvivesEnrichment ==
    [][(/\ pc \in {"done", "enriched"} /\ metadata.album_type = "soundtrack"
        /\ found_by /= "none")
          => \A n \in DOMAIN file_tags :
                Get(file_tags[n], "ALBUMARTIST", Falsy) = <<VariousArtists>>
                   => Get(file_tags'[n], "ALBUMARTIST", Falsy) = <<VariousArtists>>]_vars

\* The release C23 expects of the artist/album search for a result list: the first result
\* fetched with the expected track count, else the first fetched with media, else none
ExpectedOfList(list, tc, fetch_fail) ==
    LET fetched == {i \in 1..Len(list) : list[i] \notin fetch_fail}
        exact   == {i \in fetched : TotalTracks(Release(list[i])) = tc}
        usable  == {i \in fetched : Truthy(Get(Release(list[i]), "medium-list", <<>>))}
        first(S) == CHOOSE i \in S : \A j \in S : i <= j
    IN  IF exact /= {} THEN <<list[first(exact)]>>
        ELSE IF usable /= {} THEN <<list[first(usable)]>>
        ELSE <<>>

\* C23: whatever the service answers to the artist/album search that rip_cd is about to
\* make, search_musicbrainz_enhanced returns the first result, in result order, whose
\* fetched record has the expected total track count; when no result has it, the first
\* fetched result with a non-empty media list; and None when there is no such result.
EnhancedPrefersExactMatch ==
    pc = "search_enhanced" =>
        \A resp1 \in Responses, resp2 \in Responses, fetch_fail \in FetchFailures :
            LET r == search_musicbrainz_enhanced(metadata.artist, metadata.album, track_count,
                                                 resp1, resp2, fetch_fail)
                list == IF Truthy(resp1.list) THEN resp1.list ELSE resp2.list
                expected == ExpectedOfList(list, track_count, fetch_fail)
            IN  (resp1.ok /\ (Truthy(resp1.list) \/ resp2.ok)) =>
                    /\ ~r.raised
                    /\ Truthy(r.value) = Truthy(expected)
                    /\ Truthy(expected) => r.value.mbid = Release(expected[1]).id

\* The search returned r2, which is never the first result of an answer, for a CD with
\* r2's track count
LaterExactMatchReturned ==
    /\ pc = "resolve" /\ found_by = "enhanced"
    /\ mb_metadata.mbid = Release("r2").id
    /\ track_count = TotalTracks(Release("r2"))

\* The track number a file named dd-NN is to hold: that of track entry NN where the
\* release numbers its tracks by disc, else NN
NumberOfEntry(md, n) ==
    LET tracks == Get(md, "tracks", <<>>)
    IN  IF n <= Len(tracks) /\ "disc_number" \in DOMAIN tracks[n]
        THEN tracks[n].track_number ELSE n

\* C24 (as stated): when rip_cd has tagged the files, every file that was renamed to
\* dd-NN and tagged holds the TRACKNUMBER of NN and, where the metadata has a track entry
\* NN, the title of that entry, whatever the disc number and whichever tracks failed to
\* rip: number and title come from the number in the name, not from the list position.
RipTagsFromFilename ==
    pc = "sidecar" =>
        \A n \in ripped :
            (Truthy(file_tags[n]) /\ file_names[n] /= TrackFileName(n)) =>
                /\ file_tags[n]["TRACKNUMBER"] = <<Fmt02d(NumberOfEntry(metadata, n))>>
                /\ n <= Len(Get(metadata, "tracks", <<>>)) =>
                      file_tags[n]["TITLE"] = <<metadata.tracks[n].title>>

\* C13 (as stated): in a run on an identified album no file is moved to the canonical
\* directory or renamed before the tags are written, and the sidecar is written after
\* both the tagging and the organization.
TagsBeforeOrganization ==
    Bound =>
        /\ \A i \in 1..Len(steps) :
              steps[i] \in {"organize", "rename"} => \E j \in 1..(i - 1) : steps[j] = "tag"
        /\ \A i \in 1..Len(steps) :
              steps[i] = "sidecar" =>
                 /\ i = Len(steps)
                 /\ \E j \in 1..(i - 1) : steps[j] = "tag"
                 /\ \E j \in 1..(i - 1) : steps[j] = "rename"

\* The values add_basic_metadata may store as ARTIST and TITLE of track n when the
\* album is unidentified: what the user typed, or the placeholders
UserOrPlaceholderArtists ==
    {<<metadata.artist>>, <<UnknownArtist>>} \cup {<<Strip(t)>> : t \in TypedAnswers \ {<<>>}}

UserOrPlaceholderTitles(n) ==
    {<<TrackTitle(RipFile(n).num)>>, <<TrackTitle(RipFile(n).pos)>>}
        \cup {<<Strip(t)>> : t \in TypedAnswers \ {<<>>}}

ReorganizeTargetDirectory ==
    (\E i \in 1..Len(steps) : steps[i] = "organize") =>
        album_dir = IF metadata.album_type = "soundtrack"
                    THEN <<"Soundtracks", Replace(metadata.album, "/", <<"_">>)>>
                    ELSE <<Replace(metadata.album_artist, "/", <<"_">>),
                           Replace(metadata.album, "/", <<"_">>)>>

\* C16: rename_track_files gives the file of ripped track NN, whatever other tracks
\* were ripped, the track prefix NN and the title of entry NN of the metadata (as the
\* file name spells it, after the track's artist for a soundtrack or a compilation), or
\* "Track NN" when the metadata has no entry NN.
RenameByEmbeddedNumber ==
    pc \in {"add_metadata", "sidecar", "done"} =>
        \A n \in ripped :
            LET tracks == Get(metadata, "tracks", <<>>)
                prefix == Fmt02d(metadata.disc_number) \o <<"-">> \o Fmt02d(n) \o <<".", " ">>
                title  == IF n <= Len(tracks) THEN Sanitize(tracks[n].title) ELSE TrackTitle(n)
                suffix == title \o <<".", "f", "l", "a", "c">>
                name   == file_names[n]
            IN  /\ Len(name) >= Len(prefix) + Len(suffix)
                /\ SubSeq(name, 1, Len(prefix)) = prefix
                /\ SubSeq(name, Len(name) - Len(suffix) + 1, Len(name)) = suffix
                /\ Len(name) > Len(prefix) + Len(suffix) =>
                      /\ metadata.album_type \in {"soundtrack", "compilation"}
                      /\ n <= Len(tracks)

\* A partial rip: track 1 failed, track 2 was ripped and given the title of entry 2
SparseRipRenamed ==
    /\ pc = "done" /\ ripped = {2} /\ Len(Get(metadata, "tracks", <<>>)) >= 2
    /\ file_names[2] = <<"0", "1", "-", "0", "2", ".", " ">>
                           \o metadata.tracks[2].title \o <<".", "f", "l", "a", "c">>

(***************************************************************************)
(* Moves and renames.  The library is a function from paths to content: a  *)
(* path <<artist, album>> is an album directory, <<artist, album, name>> a *)
(* file in it.  A file's content is <<kind, data, album artist>>.          *)
(* Path.rename is os.rename: on the POSIX systems the toolset runs on it   *)
(* silently replaces an existing file.                                     *)
(***************************************************************************)
MaxMoves == 1

Dir == <<"dir">>

VariousArtistsDir == "Various Artists"

ArtistDirs == {"A", "B", VariousArtistsDir}

AlbumNames == {"X", "Y"}

\* Track_NN.flac as rip_all_tracks writes it, and the name rename_track_files gives it
TrackFiles == {"Track_01.flac", "Track_02.flac"}

NewFilename(name) == IF name = "Track_01.flac" THEN "01-01. t1.flac" ELSE "01-02. t2.flac"

\* The album just ripped
FreshAlbum ==
    (<<"A", "X">> :> Dir)
    @@ (<<"A", "X", "Track_01.flac">> :> <<"audio", "n1", "">>)
    @@ (<<"A", "X", "Track_02.flac">> :> <<"audio", "n2", "">>)

\* What the library may hold besides: another album of the artist, an album of the same
\* name under another artist with an unrenamed track or with its sidecar, a file an
\* earlier rip of the disc left in the directory, an album under Various Artists
LibraryParts ==
    {(<<"A", "Y">> :> Dir) @@ (<<"A", "Y", "01-01. t1.flac">> :> <<"audio", "y1", "A">>)
        @@ (<<"A", "Y", "rip_info.json">> :> <<"info", "y", "A">>),
     (<<"B", "X">> :> Dir) @@ (<<"B", "X", "Track_01.flac">> :> <<"audio", "o1", "B">>),
     (<<"B", "X">> :> Dir) @@ (<<"B", "X", "rip_info.json">> :> <<"info", "o2", "B">>),
     <<"A", "X", "01-01. t1.flac">> :> <<"audio", "o3", "A">>,
     (<<VariousArtistsDir, "X">> :> Dir)
        @@ (<<VariousArtistsDir, "X", "01-01. t1.flac">> :> <<"audio", "o4", VariousArtistsDir>>)}

RECURSIVE Merge(_)
Merge(parts) ==
    IF parts = {} THEN FreshAlbum
    ELSE LET part == CHOOSE part \in parts : TRUE IN part @@ Merge(parts \ {part})

\* p is dir or lies under it
Under(dir, p) == Len(p) >= Len(dir) /\ SubSeq(p, 1, Len(dir)) = dir

AlbumDirsOf(f) == {p \in DOMAIN f : Len(p) = 2}

FilesIn(f, dir) == {p \in DOMAIN f : Len(p) = 3 /\ Under(dir, p)}

Without(f, paths) == [p \in DOMAIN f \ paths |-> f[p]]

\* os.rename of the files in moved into target_dir, after target_dir.mkdir(exist_ok=True)
RenameInto(f, moved, target_dir) ==
    LET landed == {target_dir \o <<p[3]>> : p \in moved}
    IN  [q \in ((DOMAIN f \ moved) \cup landed \cup {target_dir}) |->
            IF q \in landed THEN f[CHOOSE p \in moved : target_dir \o <<p[3]>> = q]
            ELSE IF q \in DOMAIN f THEN f[q] ELSE Dir]

\* cleanup_empty_directories: rmdir of the album directory when nothing is left in it
Cleanup(f, dir) == IF FilesIn(f, dir) = {} THEN Without(f, {dir}) ELSE f

\* shutil.move of an album directory to a path that does not exist, then the rewrite of
\* its sidecar and the retagging of its files: ALBUMARTIST is set on every file, or when
\* untagged is FALSE only on the files that have one
MoveAlbum(f, src, dst, album_artist, untagged) ==
    LET srcs   == {p \in DOMAIN f : Under(src, p)}
        landed == {dst \o SubSeq(p, 3, Len(p)) : p \in srcs}
    IN  [q \in ((DOMAIN f \ srcs) \cup landed) |->
            IF q \in landed
            THEN LET was == f[src \o SubSeq(q, 3, Len(q))]
                 IN  IF Len(q) = 3 /\ (untagged \/ was[1] = "info" \/ was[3] /= "")
                     THEN <<was[1], was[2], album_artist>> ELSE was
            ELSE f[q]]

NoMove == [name |-> "none", items |-> {}, skipped |-> {}, n |-> 0]

\* The record of an operation: its items (source and target), the sources it skipped
\* with a message
Moved(name, items, skipped) ==
    /\ fs_op.n < MaxMoves
    /\ fs_was' = fs
    /\ fs_op' = [name |-> name, items |-> items, skipped |-> skipped, n |-> fs_op.n + 1]

\* CDRipper.reorganize_album_directory(old_album_dir, new_metadata): the files in moved
\* are renamed into the target before the move completes or a step raises
ReorganizeAlbumDirectory ==
    /\ \E old_album_dir \in AlbumDirsOf(fs), artist \in ArtistDirs, album \in AlbumNames,
          raises \in BOOLEAN :
       \E moved \in SUBSET FilesIn(fs, old_album_dir) :
          LET new_album_dir == <<artist, album>>
              landed == RenameInto(fs, moved, new_album_dir)
          IN  /\ old_album_dir /= new_album_dir
              /\ raises \/ moved = FilesIn(fs, old_album_dir)
              /\ fs' = IF raises THEN landed ELSE Cleanup(landed, old_album_dir)
              /\ fs_op.n < MaxMoves
              /\ fs_was' = fs
              /\ fs_op' = [name |-> "reorganize_album_directory",
                           items |-> {[src |-> p, dst |-> new_album_dir \o <<p[3]>>] :
                                         p \in FilesIn(fs, old_album_dir)},
                           skipped |-> {}, n |-> fs_op.n + 1,
                           ret |-> IF raises THEN old_album_dir ELSE new_album_dir]
    /\ UNCHANGED <<ripVars, catVars, tagVars, scVars, batchVars, promptVars, ripLogVars, enrichedVars, individualVars, multiDiscVars, discogsVars>>

\* CDRipper.rename_track_files(album_dir, metadata, disc_number): each Track_NN.flac is
\* renamed unless its rename raises
RenameTrackFiles ==
    /\ \E the_album_dir \in AlbumDirsOf(fs) :
          LET tracks == {p \in FilesIn(fs, the_album_dir) : p[3] \in TrackFiles}
          IN  /\ tracks /= {}
              /\ \E renamed \in SUBSET tracks :
                    LET landed == {the_album_dir \o <<NewFilename(p[3])>> : p \in renamed}
                    IN  /\ fs' = [q \in ((DOMAIN fs \ renamed) \cup landed) |->
                                    IF q \in landed
                                    THEN fs[CHOOSE p \in renamed :
                                                the_album_dir \o <<NewFilename(p[3])>> = q]
                                    ELSE fs[q]]
                        /\ Moved("rename_track_files",
                                 {[src |-> p, dst |-> the_album_dir \o <<NewFilename(p[3])>>] :
                                      p \in tracks}, {})
    /\ UNCHANGED <<ripVars, catVars, tagVars, scVars, batchVars, promptVars, ripLogVars, enrichedVars, individualVars, multiDiscVars, discogsVars>>

RECURSIVE MoveAlbums(_, _, _)
MoveAlbums(f, albums, new_name) ==
    IF albums = {} THEN f
    ELSE LET the_album_dir == CHOOSE a \in albums : TRUE
         IN  MoveAlbums(MoveAlbum(f, the_album_dir, <<new_name, the_album_dir[2]>>, new_name, FALSE),
                        albums \ {the_album_dir}, new_name)

\* migrate_artist(old_name, new_name): an album whose directory exists under the new
\* name is skipped; the others in reached are moved before the loop ends or raises
MigrateArtist ==
    /\ \E old_name \in ArtistDirs, new_name \in ArtistDirs, confirm \in {"y", "n"} :
          LET albums   == {a \in AlbumDirsOf(fs) : a[1] = old_name}
              existing == {a \in albums : <<new_name, a[2]>> \in DOMAIN fs}
          IN  /\ albums /= {}
              /\ \E reached \in SUBSET albums :
                    /\ confirm = "n" => reached = {}
                    /\ fs' = MoveAlbums(fs, reached \ existing, new_name)
                    /\ Moved("migrate_artist",
                             {[src |-> a, dst |-> <<new_name, a[2]>>] : a \in reached},
                             reached \cap existing)
    /\ UNCHANGED <<ripVars, catVars, tagVars, scVars, batchVars, promptVars, ripLogVars, enrichedVars, individualVars, multiDiscVars, discogsVars>>

\* migrate_album_to_various_artists(album_dir)
MigrateAlbumToVariousArtists ==
    /\ \E the_album_dir \in AlbumDirsOf(fs) :
          LET target_album_dir == <<VariousArtistsDir, the_album_dir[2]>>
          IN  IF target_album_dir \in DOMAIN fs
              THEN /\ fs' = fs
                   /\ Moved("migrate_album_to_various_artists",
                            {[src |-> the_album_dir, dst |-> target_album_dir]}, {the_album_dir})
              ELSE /\ fs' = MoveAlbum(fs, the_album_dir, target_album_dir, VariousArtistsDir, TRUE)
                   /\ Moved("migrate_album_to_various_artists",
                            {[src |-> the_album_dir, dst |-> target_album_dir]}, {})
    /\ UNCHANGED <<ripVars, catVars, tagVars, scVars, batchVars, promptVars, ripLogVars, enrichedVars, individualVars, multiDiscVars, discogsVars>>

FsNext ==
    \/ ReorganizeAlbumDirectory
    \/ RenameTrackFiles
    \/ MigrateArtist
    \/ MigrateAlbumToVariousArtists

InitFs ==
    /\ batch = Falsy /\ prompt = Falsy
    /\ fs \in {Merge(parts) : parts \in SUBSET LibraryParts}
    /\ fs_was = Falsy /\ fs_op = NoMove
    /\ pc = "start" /\ track_count = 0 /\ metadata = Falsy /\ mb_metadata = Falsy
    /\ found_by = "none" /\ user_selected = FALSE /\ choice = NoChoice
    /\ album_dir = Falsy /\ ripped = {}
    /\ dcm = Falsy
    /\ mdf = Falsy
    /\ ind = Falsy
    /\ enriched_with = Falsy
    /\ attempted = Falsy
    /\ steps = <<>> /\ file_names = Falsy /\ file_tags = Falsy /\ sidecar = Falsy
    /\ cat_in = Falsy /\ cat = NoCat
    /\ tags = Falsy /\ op = "none" /\ op_in = Falsy
    /\ op_ret = FALSE /\ op_saved = FALSE /\ op_before = Falsy
    /\ op_ok = TRUE /\ op_again = FALSE /\ op_n = 0
    /\ disk = Falsy /\ sc_old = Falsy /\ sc_new = Falsy /\ sc_pc = "idle" /\ sc_writer = "none"

SpecFs == InitFs /\ [][FsNext]_vars

\* C9 (as stated): whenever the target path of a file or album directory that a move or
\* rename handles already exists, the item is skipped with a message, it stays where it
\* was, and everything that was at the target path is unchanged afterwards.
NoMoveReplacesExistingData ==
    \A item \in fs_op.items :
        item.dst \in DOMAIN fs_was =>
            /\ item.src \in fs_op.skipped
            /\ item.src \in DOMAIN fs /\ fs[item.src] = fs_was[item.src]
            /\ \A p \in DOMAIN fs_was :
                  Under(item.dst, p) => p \in DOMAIN fs /\ fs[p] = fs_was[p]

\* C28 (as stated): after reorganize_album_directory, every file of the album is in the
\* directory it returned: all of them were moved and the new directory was returned, or
\* none was moved and the old directory was returned.
ReorganizeAllOrNothing ==
    fs_op.name = "reorganize_album_directory" =>
        /\ \A item \in fs_op.items :
              LET now == fs_op.ret \o <<item.src[3]>>
              IN  now \in DOMAIN fs /\ fs[now] = fs_was[item.src]
        /\ \/ \A item \in fs_op.items : item.src \notin DOMAIN fs
           \/ \A item \in fs_op.items : item.dst \notin DOMAIN fs \/ item.dst \in DOMAIN fs_was

(***************************************************************************)
(* Sidecar writes.  rip_info.json and its backup are files: whether they   *)
(* exist and the tokens on disk.  "with open(path, 'w') as f:              *)
(* json.dump(doc, f)" truncates the file when it opens it, then writes the *)
(* document piece by piece; the process can stop between any two steps.    *)
(***************************************************************************)
NoFile == [exists |-> FALSE, bytes |-> <<>>]

MetadataVersions == {"m1", "m2"}

\* rip_info documents: metadata, tracks_ripped, total_tracks, and the correction marks
\* update_rip_info adds
Docs == [metadata : MetadataVersions, tracks_ripped : 1..MaxTracks,
         total_tracks : {MaxTracks}, corrected : BOOLEAN]

\* json.dump(doc, f, indent=2): the pieces written, in order
Serialize(doc) ==
    <<<<"{">>, <<"metadata", doc.metadata>>, <<"tracks_ripped", doc.tracks_ripped>>,
      <<"total_tracks", doc.total_tracks>>>>
    \o (IF doc.corrected THEN <<<<"correction_tool", "metadata_corrector">>>> ELSE <<>>)
    \o <<<<"}">>>>

FileOf(doc) == [exists |-> TRUE, bytes |-> Serialize(doc)]

\* json.load succeeds
Complete(file) == file.exists /\ \E doc \in Docs : Serialize(doc) = file.bytes

\* json.load(f)
Load(file) == CHOOSE doc \in Docs : Serialize(doc) = file.bytes

\* The file a writer at this position has open, and the document it dumps into it
Target == IF sc_pc \in {"backup_open", "backup_write"} THEN "backup" ELSE "info"

\* A writer that dumps the updated document into both files
DumpedUpdatedOnly == Serialize(sc_new)

Dumped == IF Target = "backup" THEN Serialize(Load(disk.info)) ELSE Serialize(sc_new)

\* rip_cd, "Save metadata file for reference": the album directory may hold the
\* sidecar of an earlier rip
RipCdWrites ==
    /\ sc_pc = "idle"
    /\ \E m \in MetadataVersions, successful_tracks \in 1..MaxTracks :
          sc_new' = [metadata |-> m, tracks_ripped |-> successful_tracks,
                     total_tracks |-> MaxTracks, corrected |-> FALSE]
    /\ sc_old' = disk.info
    /\ sc_writer' = "rip_cd"
    /\ sc_pc' = "info_open"
    /\ UNCHANGED <<disk, ripVars, catVars, tagVars, fsVars, batchVars, promptVars, ripLogVars, enrichedVars, individualVars, multiDiscVars, discogsVars>>

\* MetadataCorrector.update_rip_info(new_metadata): the document is loaded, a backup is
\* written, then the sidecar
UpdateRipInfo ==
    /\ sc_pc = "idle" /\ Complete(disk.info)
    /\ \E m \in MetadataVersions :
          sc_new' = [Load(disk.info) EXCEPT !.metadata = m, !.corrected = TRUE]
    /\ sc_old' = disk.info
    /\ sc_writer' = "update_rip_info"
    /\ sc_pc' = "backup_open"
    /\ UNCHANGED <<disk, ripVars, catVars, tagVars, fsVars, batchVars, promptVars, ripLogVars, enrichedVars, individualVars, multiDiscVars, discogsVars>>

\* rip_individual_tracks, "Update rip_info.json": tracks that were missing are added
RipIndividualTracks ==
    /\ sc_pc = "idle" /\ Complete(disk.info)
    /\ \E successful_rips \in 1..MaxTracks :
          /\ Load(disk.info).tracks_ripped + successful_rips <= MaxTracks
          /\ sc_new' = [Load(disk.info) EXCEPT !.tracks_ripped = @ + successful_rips]
    /\ sc_old' = disk.info
    /\ sc_writer' = "rip_individual_tracks"
    /\ sc_pc' = "info_open"
    /\ UNCHANGED <<disk, ripVars, catVars, tagVars, fsVars, batchVars, promptVars, ripLogVars, enrichedVars, individualVars, multiDiscVars, discogsVars>>

\* open(path, 'w')
OpenFile ==
    /\ sc_pc \in {"backup_open", "info_open"}
    /\ disk' = [disk EXCEPT ![Target] = [exists |-> TRUE, bytes |-> <<>>]]
    /\ sc_pc' = IF sc_pc = "backup_open" THEN "backup_write" ELSE "info_write"
    /\ UNCHANGED <<sc_old, sc_new, sc_writer, ripVars, catVars, tagVars, fsVars, batchVars, promptVars, ripLogVars, enrichedVars, individualVars, multiDiscVars, discogsVars>>

\* The next piece of the document reaches the file
WriteChunk ==
    /\ sc_pc \in {"backup_write", "info_write"}
    /\ Len(disk[Target].bytes) < Len(Dumped)
    /\ disk' = [disk EXCEPT ![Target].bytes = Append(@, Dumped[Len(@) + 1])]
    /\ UNCHANGED <<sc_old, sc_new, sc_pc, sc_writer, ripVars, catVars, tagVars, fsVars, batchVars, promptVars, ripLogVars, enrichedVars, individualVars, multiDiscVars, discogsVars>>

\* The with block ends
CloseFile ==
    /\ sc_pc \in {"backup_write", "info_write"}
    /\ disk[Target].bytes = Dumped
    /\ sc_pc' = IF sc_pc = "backup_write" THEN "info_open" ELSE "idle"
    /\ UNCHANGED <<disk, sc_old, sc_new, sc_writer, ripVars, catVars, tagVars, fsVars, batchVars, promptVars, ripLogVars, enrichedVars, individualVars, multiDiscVars, discogsVars>>

\* The process is killed, or the machine loses power
Crash ==
    /\ sc_pc \notin {"idle", "crashed"}
    /\ sc_pc' = "crashed"
    /\ UNCHANGED <<disk, sc_old, sc_new, sc_writer, ripVars, catVars, tagVars, fsVars, batchVars, promptVars, ripLogVars, enrichedVars, individualVars, multiDiscVars, discogsVars>>

SidecarNext ==
    \/ RipCdWrites
    \/ UpdateRipInfo
    \/ RipIndividualTracks
    \/ OpenFile
    \/ WriteChunk
    \/ CloseFile
    \/ Crash

InitSidecar ==
    /\ batch = Falsy /\ prompt = Falsy
    /\ disk = [info |-> NoFile, backup |-> NoFile]
    /\ sc_old = NoFile
    /\ sc_new = [metadata |-> "m1", tracks_ripped |-> 1, total_tracks |-> MaxTracks,
                 corrected |-> FALSE]
    /\ sc_pc = "idle" /\ sc_writer = "none"
    /\ pc = "start" /\ track_count = 0 /\ metadata = Falsy /\ mb_metadata = Falsy
    /\ found_by = "none" /\ user_selected = FALSE /\ choice = NoChoice
    /\ album_dir = Falsy /\ ripped = {}
    /\ dcm = Falsy
    /\ mdf = Falsy
    /\ ind = Falsy
    /\ enriched_with = Falsy
    /\ attempted = Falsy
    /\ steps = <<>> /\ file_names = Falsy /\ file_tags = Falsy /\ sidecar = Falsy
    /\ cat_in = Falsy /\ cat = NoCat
    /\ tags = Falsy /\ op = "none" /\ op_in = Falsy
    /\ op_ret = FALSE /\ op_saved = FALSE /\ op_before = Falsy
    /\ op_ok = TRUE /\ op_again = FALSE /\ op_n = 0
    /\ fs = Falsy /\ fs_was = Falsy /\ fs_op = Falsy

SpecSidecar == InitSidecar /\ [][SidecarNext]_vars

\* C10 (as stated): if the process stops at any point of a sidecar write, rip_info.json
\* is what it was before the write, or holds the complete new document.
SidecarWriteAtomic ==
    sc_pc = "crashed" => (disk.info = sc_old \/ disk.info = FileOf(sc_new))

\* C11: in every correction update_rip_info leaves rip_info.json as it was until the
\* backup is written, and from then on, the end of the correction included, the backup
\* holds the document the sidecar held immediately before that correction.
BackupBeforeOverwrite ==
    sc_writer = "update_rip_info" =>
        /\ sc_pc \in {"backup_open", "backup_write"} => disk.info = sc_old
        /\ sc_pc \in {"info_open", "info_write", "idle"} =>
              /\ Complete(disk.backup)
              /\ Load(disk.backup) = Load(sc_old)

\* A second correction of the same album has completed: the backup holds the first
\* correction's document, the sidecar the second one's
SecondCorrectionBackedUp ==
    /\ sc_writer = "update_rip_info" /\ sc_pc = "idle"
    /\ Complete(disk.backup) /\ Load(disk.backup).corrected
    /\ disk.info = FileOf(sc_new) /\ disk.info /= disk.backup

(***************************************************************************)
(* Batch enrichment (src/src/core/enrich_metadata.py)                      *)
(***************************************************************************)
MaxAlbums == 2

MaxFiles == 2

\* A FLAC file of an album as the batch meets it: its stored tags, whether it lacks an
\* embedded picture, and what fails on it: FLAC(path) raises, or audio.save() raises
BatchFiles ==
    [audio : {Falsy, "ALBUM" :> <<<<"T", "4">>>>}, cover_missing : BOOLEAN,
     fault : {"none", "open", "save"}]

FileLists == UNION {[1..n -> BatchFiles] : n \in 1..MaxFiles}

\* The merged metadata of an album: from a sidecar alone, and from the catalog
BatchMetadata ==
    {[album |-> <<"T", "4">>, date |-> Falsy, tracks |-> <<>>],
     [album |-> <<"T", "4">>, date |-> Falsy,
      tracks |-> <<[disc_number |-> 1, track_number |-> 1, title |-> <<"t", "1">>]>>]}

\* An album directory: its sidecar, whether listing its files raises, its metadata,
\* whether 'tracks' of the sidecar is a one-entry object instead of a list (it then
\* stands in for enhanced_metadata['tracks']), whether a cover.* file lies next to the
\* files, and the files
BatchAlbums ==
    [sidecar : {"missing", "unreadable", "ok"}, listing_raises : BOOLEAN,
     enhanced_metadata : BatchMetadata, tracks_is_object : BOOLEAN,
     has_cover_file : BOOLEAN, files : FileLists]

\* "Get track-specific metadata": tracks[i] of a dict raises KeyError
TrackInfoAt(album, i) ==
    LET tracks == Get(album.enhanced_metadata, "tracks", Falsy)
    IN  IF album.tracks_is_object
        THEN [raised |-> i < 1, value |-> Falsy]
        ELSE IF Truthy(tracks) /\ i < Len(tracks)
        THEN [raised |-> FALSE, value |-> tracks[i + 1]]
        ELSE [raised |-> FALSE, value |-> Falsy]

\* apply_metadata_standard on the file, its try/except included: what it returns, and
\* whether an exception was caught inside
ApplyToFile(file, md, track_info) ==
    LET r == apply_metadata_standard(file.audio, md, track_info)
        raised == file.fault = "open" \/ (r.updated /\ file.fault = "save")
    IN  [ret |-> r.updated /\ ~raised, raised |-> raised]

\* add_cover_art_if_missing, its try/except included
AddsCover(file, album) ==
    file.fault = "none" /\ file.cover_missing /\ album.has_cover_file

\* enrich_album_metadata, "Process FLAC files": the loop from file i on (0-based)
RECURSIVE ProcessFiles(_, _, _)
ProcessFiles(album, i, results) ==
    IF i >= Len(album.files) THEN results
    ELSE LET file == album.files[i + 1]
             ti   == TrackInfoAt(album, i)
             a    == ApplyToFile(file, album.enhanced_metadata, ti.value)
         IN  ProcessFiles(album, i + 1,
                 IF ti.raised
                 THEN [results EXCEPT !.errors = Append(@, i)]
                 ELSE [results EXCEPT
                         !.updated_files = @ + (IF a.ret THEN 1 ELSE 0),
                         !.files_with_cover_added = @ + (IF AddsCover(file, album) THEN 1 ELSE 0)])

\* FLACMetadataEnricher.enrich_album_metadata(album_dir)
enrich_album_metadata(album) ==
    IF album.sidecar = "missing"
    THEN [raised |-> FALSE, value |-> [error |-> "No rip_info.json found"]]
    ELSE IF album.sidecar = "unreadable"
    THEN [raised |-> FALSE, value |-> [error |-> "json"]]
    ELSE IF album.listing_raises
    THEN [raised |-> TRUE, value |-> Falsy]
    ELSE [raised |-> FALSE,
          value  |-> ProcessFiles(album, 0,
                        [total_files |-> Len(album.files), updated_files |-> 0,
                         files_with_cover_added |-> 0, errors |-> <<>>])]

\* The files of the album whose tag update raised
FilesThatFailed(album) ==
    {i \in 1..Len(album.files) :
        LET ti == TrackInfoAt(album, i - 1)
        IN  \/ ti.raised
            \/ ApplyToFile(album.files[i], album.enhanced_metadata, ti.value).raised}

\* Something failed on the album: it could not be processed, or one of its files failed
AlbumFailed(album) ==
    \/ album.sidecar /= "ok"
    \/ album.listing_raises
    \/ FilesThatFailed(album) /= {}

\* enrich_all_metadata: find_all_albums, overall_stats
FindAllAlbums ==
    /\ batch.pc = "start"
    /\ \E n \in 0..MaxAlbums :
          batch' = [pc |-> "loop", i |-> 0,
                    stats |-> [total_albums |-> n, processed_albums |-> 0, total_files |-> 0,
                               updated_files |-> 0, files_with_cover_added |-> 0,
                               albums_with_errors |-> 0],
                    failed_albums |-> 0, failed_files |-> 0]
    /\ UNCHANGED <<ripVars, catVars, tagVars, fsVars, scVars, promptVars, ripLogVars, enrichedVars, individualVars, multiDiscVars, discogsVars>>

\* enrich_all_metadata, one turn of "for i, album_dir in enumerate(albums, 1)"
EnrichNextAlbum ==
    /\ batch.pc = "loop" /\ batch.i < batch.stats.total_albums
    /\ \E album \in BatchAlbums :
       \E r \in {enrich_album_metadata(album)} :
          LET stats == batch.stats
              after ==
                IF r.raised \/ "error" \in DOMAIN r.value
                THEN [stats EXCEPT !.albums_with_errors = @ + 1]
                ELSE [stats EXCEPT
                        !.processed_albums = @ + 1,
                        !.total_files = @ + r.value.total_files,
                        !.updated_files = @ + r.value.updated_files,
                        !.files_with_cover_added = @ + r.value.files_with_cover_added,
                        !.albums_with_errors = @ + (IF Truthy(r.value.errors) THEN 1 ELSE 0)]
          IN  batch' = [batch EXCEPT
                          !.i = @ + 1,
                          !.stats = after,
                          !.failed_albums = @ + (IF AlbumFailed(album) THEN 1 ELSE 0),
                          !.failed_files = @ + Cardinality(FilesThatFailed(album))]
    /\ UNCHANGED <<ripVars, catVars, tagVars, fsVars, scVars, promptVars, ripLogVars, enrichedVars, individualVars, multiDiscVars, discogsVars>>

\* enrich_all_metadata, "return overall_stats"
ReturnStats ==
    /\ batch.pc = "loop" /\ batch.i = batch.stats.total_albums
    /\ batch' = [batch EXCEPT !.pc = "done"]
    /\ UNCHANGED <<ripVars, catVars, tagVars, fsVars, scVars, promptVars, ripLogVars, enrichedVars, individualVars, multiDiscVars, discogsVars>>

BatchNext ==
    \/ FindAllAlbums
    \/ EnrichNextAlbum
    \/ ReturnStats

InitBatch ==
    /\ batch = [pc |-> "start"] /\ prompt = Falsy
    /\ pc = "start" /\ track_count = 0 /\ metadata = Falsy /\ mb_metadata = Falsy
    /\ found_by = "none" /\ user_selected = FALSE /\ choice = NoChoice
    /\ album_dir = Falsy /\ ripped = {}
    /\ dcm = Falsy
    /\ mdf = Falsy
    /\ ind = Falsy
    /\ enriched_with = Falsy
    /\ attempted = Falsy
    /\ steps = <<>> /\ file_names = Falsy /\ file_tags = Falsy /\ sidecar = Falsy
    /\ cat_in = Falsy /\ cat = NoCat
    /\ tags = Falsy /\ op = "none" /\ op_in = Falsy
    /\ op_ret = FALSE /\ op_saved = FALSE /\ op_before = Falsy
    /\ op_ok = TRUE /\ op_again = FALSE /\ op_n = 0
    /\ fs = Falsy /\ fs_was = Falsy /\ fs_op = Falsy
    /\ disk = Falsy /\ sc_old = Falsy /\ sc_new = Falsy /\ sc_pc = "idle" /\ sc_writer = "none"

SpecBatch == InitBatch /\ [][BatchNext]_vars

\* C12 (as stated): the batch visits every album whatever failed before, and at the end
\* of the run every album on which something failed, a file whose tag update raised
\* included, is counted in albums_with_errors.
BatchFailuresCounted ==
    batch.pc = "done" =>
        /\ batch.i = batch.stats.total_albums
        /\ batch.stats.processed_albums + batch.stats.albums_with_errors
              >= batch.stats.total_albums
        /\ batch.stats.albums_with_errors = batch.failed_albums

(***************************************************************************)
(* The catalog number prompt of get_user_metadata, and the variations      *)
(* search_musicbrainz_by_catalog builds from what it returned              *)
(***************************************************************************)
MaxTyped == 3

max_attempts == 3

TypedChars == {"a", "B", "1", " ", "-", "."}

\* What the user may type at the prompt: every string of up to MaxTyped characters,
\* and some longer ones (the last has 21 characters)
TypedCatalogs ==
    UNION {[1..n -> TypedChars] : n \in 0..MaxTyped}
    \cup {<<"G", "E", "F", "D", "-", "2", "4", "6", "1", "7">>,
          <<"C", "D", "V", " ", "2", "6", "4", "4">>,
          <<" ", "c", "d", " ", "1", "-", "2", " ">>,
          <<"a", "b", "c", "1", "2", "3">>,
          <<"A", "B", "C", "1", "2", "3", "4">>,
          [i \in 1..21 |-> "a"]}

\* Answers to "Use catalog number ...? (y/n/retry)"
TypedConfirms ==
    {<<>>, <<"y">>, <<" ", "Y", "E", "S">>, <<"N", "o">>, <<"n">>, <<"r">>,
     <<"r", "e", "t", "r", "y">>, <<"x">>}

\* A validation that accepts every input
AnyFormat(catalog) == TRUE

\* CDRipper.validate_catalog_format
validate_catalog_format(catalog) ==
    /\ Truthy(catalog)
    /\ Len(catalog) >= 3 /\ Len(catalog) <= 20
    /\ \E i \in 1..Len(catalog) : IsUpper(catalog[i]) \/ IsDigit(catalog[i])

\* get_catalog_number_with_validation, one turn of "while attempts < max_attempts"
AskCatalogNumber ==
    /\ prompt.pc = "ask" /\ prompt.attempts < max_attempts
    /\ \E typed \in TypedCatalogs, answer \in TypedConfirms :
          LET catalog_input == Strip(typed)
              normalized_catalog == normalize_catalog_number(catalog_input)
              confirm == Strip(Lower(answer))
          IN  prompt' =
                IF ~Truthy(catalog_input)
                THEN [prompt EXCEPT !.pc = "returned", !.value = Falsy]
                ELSE IF ~validate_catalog_format(normalized_catalog)
                THEN [prompt EXCEPT !.attempts = @ + 1]
                ELSE IF confirm \in {<<"y">>, <<"y", "e", "s">>, <<>>}
                THEN [prompt EXCEPT !.pc = "returned", !.value = catalog_input]
                ELSE IF confirm \in {<<"n">>, <<"n", "o">>}
                THEN [prompt EXCEPT !.pc = "returned", !.value = Falsy]
                ELSE IF confirm \in {<<"r">>, <<"r", "e", "t", "r", "y">>}
                THEN [prompt EXCEPT !.attempts = @ + 1]
                ELSE prompt
    /\ UNCHANGED <<ripVars, catVars, tagVars, fsVars, scVars, batchVars, ripLogVars, enrichedVars, individualVars, multiDiscVars, discogsVars>>

\* get_catalog_number_with_validation, "Maximum attempts reached"
GiveUpCatalogNumber ==
    /\ prompt.pc = "ask" /\ prompt.attempts >= max_attempts
    /\ prompt' = [prompt EXCEPT !.pc = "returned", !.value = Falsy]
    /\ UNCHANGED <<ripVars, catVars, tagVars, fsVars, scVars, batchVars, ripLogVars, enrichedVars, individualVars, multiDiscVars, discogsVars>>

\* rip_cd passes metadata['catalog_number'] to search_musicbrainz_enhanced, which
\* searches by catalog number "if catalog_number": the variations queried
QueryCatalogVariations ==
    /\ prompt.pc = "returned" /\ Truthy(prompt.value)
    /\ prompt' = [prompt EXCEPT !.pc = "searched",
                                !.variations = UniqueVariations(prompt.value)]
    /\ UNCHANGED <<ripVars, catVars, tagVars, fsVars, scVars, batchVars, ripLogVars, enrichedVars, individualVars, multiDiscVars, discogsVars>>

PromptNext ==
    \/ AskCatalogNumber
    \/ GiveUpCatalogNumber
    \/ QueryCatalogVariations

InitPrompt ==
    /\ prompt = [pc |-> "ask", attempts |-> 0, value |-> Falsy, variations |-> <<>>]
    /\ batch = Falsy
    /\ pc = "start" /\ track_count = 0 /\ metadata = Falsy /\ mb_metadata = Falsy
    /\ found_by = "none" /\ user_selected = FALSE /\ choice = NoChoice
    /\ album_dir = Falsy /\ ripped = {}
    /\ dcm = Falsy
    /\ mdf = Falsy
    /\ ind = Falsy
    /\ enriched_with = Falsy
    /\ attempted = Falsy
    /\ steps = <<>> /\ file_names = Falsy /\ file_tags = Falsy /\ sidecar = Falsy
    /\ cat_in = Falsy /\ cat = NoCat
    /\ tags = Falsy /\ op = "none" /\ op_in = Falsy
    /\ op_ret = FALSE /\ op_saved = FALSE /\ op_before = Falsy
    /\ op_ok = TRUE /\ op_again = FALSE /\ op_n = 0
    /\ fs = Falsy /\ fs_was = Falsy /\ fs_op = Falsy
    /\ disk = Falsy /\ sc_old = Falsy /\ sc_new = Falsy /\ sc_pc = "idle" /\ sc_writer = "none"

SpecPrompt == InitPrompt /\ [][PromptNext]_vars

\* The catalog number with its spaces and hyphens removed, in upper case
WithoutSeparators(s) == Upper(SelectSeq(s, LAMBDA c : c \notin {" ", "-"}))

\* The catalog number with every character from replaced by the character to
Swapped(s, from, to) == [i \in 1..Len(s) |-> IF s[i] = from THEN to ELSE s[i]]

\* C17: the variations searched for a catalog number hold no duplicate and no empty
\* string, start with the number as given, and contain its form without spaces and
\* hyphens in upper case, its form with hyphens for spaces and its form with spaces for
\* hyphens; for GEFD-24617 that is GEFD-24617, GEFD24617 and GEFD 24617.
CatalogVariations ==
    prompt.pc = "searched" =>
        LET v == prompt.variations
            original == prompt.value
        IN  /\ \A i, j \in 1..Len(v) : i /= j => v[i] /= v[j]
            /\ \A i \in 1..Len(v) : v[i] /= <<>>
            /\ Len(v) >= 1 /\ v[1] = original
            /\ InList(v, WithoutSeparators(original))
            /\ InList(v, Swapped(original, "-", " "))
            /\ InList(v, Swapped(original, " ", "-"))
            /\ original = <<"G", "E", "F", "D", "-", "2", "4", "6", "1", "7">> =>
                  /\ InList(v, <<"G", "E", "F", "D", "2", "4", "6", "1", "7">>)
                  /\ InList(v, <<"G", "E", "F", "D", " ", "2", "4", "6", "1", "7">>)

\* GEFD-24617 was searched in exactly its three forms
GefdVariations ==
    /\ prompt.pc = "searched"
    /\ prompt.value = <<"G", "E", "F", "D", "-", "2", "4", "6", "1", "7">>
    /\ Len(prompt.variations) = 3

\* C18: what the prompt returns is None or a string whose form without spaces and
\* hyphens, in upper case, has 3 to 20 characters and at least one letter or digit; so
\* the catalog number search only ever runs on such a string.
OnlyValidCatalogSearched ==
    /\ prompt.pc \in {"returned", "searched"} =>
          \/ prompt.value = Falsy
          \/ LET n == WithoutSeparators(prompt.value)
             IN  /\ Len(n) >= 3 /\ Len(n) <= 20
                 /\ \E i \in 1..Len(n) : IsUpper(n[i]) \/ IsLower(n[i]) \/ IsDigit(n[i])
    /\ prompt.pc = "searched" => Truthy(prompt.value)
    /\ prompt.pc /= "searched" => prompt.variations = <<>>

\* After two rejected inputs a third one passed and was searched
ThirdAttemptSearched ==
    /\ prompt.pc = "searched" /\ prompt.attempts = 2
    /\ prompt.value = <<"a", "B", "1">>


(***************************************************************************)
(* rip_individual_tracks on an album rip_cd has written                    *)
(* (src/src/core/rip_individual_track.py)                                  *)
(***************************************************************************)
MaxRuns == 2

\* The releases an album may have been identified as by its track count
IdentifiedAs(n) == {rid \in {"r1", "r2", "r4"} : TotalTracks(Release(rid)) = n}

\* The album directory as rip_cd leaves it for a CD of n tracks identified as release rid,
\* ripped as disc disc_number, with the tracks in ok captured: the names given by
\* rename_track_files and the rip_info
AlbumAfterRipCd(n, rid, disc_number, ok) ==
    LET found == [ok |-> TRUE, list |-> <<rid>>]
        typed == UserMetadata("regular", NameAb, <<"h">>, disc_number, Falsy)
        md    == Update(typed, search_musicbrainz_enhanced(NameAb, <<"h">>, n, found, found, {}).value)
    IN  [files |-> {RenamedName(TrackFileName(t), Cardinality({m \in ok : m < t}), md, disc_number) :
                       t \in ok},
         rip_info |-> [metadata |-> md, tracks_ripped |-> Cardinality(ok), total_tracks |-> n],
         runs |-> 0]

\* album_path.glob("01-*.flac") and re.search(r'01-(\d+)\.', file.name): the track
\* number of a listed file, or -1
ExistingTrackNum(name) ==
    LET ends == {k \in 4..(Len(name) - 1) : AllDigits(SubSeq(name, 4, k)) /\ name[k + 1] = "."}
    IN  IF Len(name) >= 8 /\ SubSeq(name, 1, 3) = <<"0", "1", "-">>
           /\ SubSeq(name, Len(name) - 4, Len(name)) = <<".", "f", "l", "a", "c">>
           /\ ends /= {}
        THEN ParseInt(SubSeq(name, 4, CHOOSE k \in ends : \A j \in ends : j <= k))
        ELSE -1

\* "Show missing tracks": the entries of metadata['tracks'] with no listed file
missing_tracks(album) ==
    {t \in 1..Len(Get(album.rip_info.metadata, "tracks", <<>>)) :
        t \notin {ExistingTrackNum(name) : name \in album.files}}

\* final_filename = f"01-{track_num:02d}. {safe_title}.flac"
final_filename(album, track_num) ==
    <<"0", "1", "-">> \o Fmt02d(track_num) \o <<".", " ">>
        \o Sanitize(album.rip_info.metadata.tracks[track_num].title)
        \o <<".", "f", "l", "a", "c">>

\* What the user types at "Enter track number to rip": q, all, or a number
TrackChoices == {<<"q">>, <<"a", "l", "l">>} \cup {Str(t) : t \in 1..MaxTracks}

\* One run of rip_individual_tracks(album_path): the user's answer, whether a CD is in
\* the drive, the tracks the drive captures (it can capture the tracks the CD has), and
\* the captured tracks whose tagging does not raise
RipIndividual ==
    /\ Truthy(ind) /\ ind.runs < MaxRuns
    /\ \E answer \in TrackChoices, cd_present \in BOOLEAN,
          captured \in SUBSET (1..ind.rip_info.total_tracks),
          tagged \in SUBSET (1..ind.rip_info.total_tracks) :
          LET missing == missing_tracks(ind)
              tracks_to_rip == IF Lower(answer) = <<"a", "l", "l">> THEN missing
                               ELSE IF AllDigits(answer) /\ ParseInt(answer) \in missing
                               THEN {ParseInt(answer)}
                               ELSE {}
              successful_rips == Cardinality(tagged)
          IN  /\ tagged \subseteq captured
              /\ captured \subseteq tracks_to_rip
              /\ (missing = {} \/ Lower(answer) = <<"q">> \/ ~cd_present) => captured = {}
              /\ ind' = [files |-> ind.files \cup {final_filename(ind, t) : t \in captured},
                         rip_info |-> IF successful_rips > 0
                                      THEN [ind.rip_info EXCEPT !.tracks_ripped = @ + successful_rips]
                                      ELSE ind.rip_info,
                         runs |-> ind.runs + 1]
    /\ UNCHANGED <<ripVars, catVars, tagVars, fsVars, scVars, batchVars, promptVars, ripLogVars, enrichedVars, multiDiscVars, discogsVars>>

InitIndividual ==
    /\ \E n \in 1..MaxTracks, disc_number \in 1..MaxDisc :
          \E rid \in IdentifiedAs(n), ok \in (SUBSET (1..n)) \ {{}} :
              ind = AlbumAfterRipCd(n, rid, disc_number, ok)
    /\ batch = Falsy /\ prompt = Falsy
    /\ pc = "start" /\ track_count = 0 /\ metadata = Falsy /\ mb_metadata = Falsy
    /\ found_by = "none" /\ user_selected = FALSE /\ choice = NoChoice
    /\ album_dir = Falsy /\ ripped = {}
    /\ dcm = Falsy
    /\ mdf = Falsy
    /\ enriched_with = Falsy
    /\ attempted = Falsy
    /\ steps = <<>> /\ file_names = Falsy /\ file_tags = Falsy /\ sidecar = Falsy
    /\ cat_in = Falsy /\ cat = NoCat
    /\ tags = Falsy /\ op = "none" /\ op_in = Falsy
    /\ op_ret = FALSE /\ op_saved = FALSE /\ op_before = Falsy
    /\ op_ok = TRUE /\ op_again = FALSE /\ op_n = 0
    /\ fs = Falsy /\ fs_was = Falsy /\ fs_op = Falsy
    /\ disk = Falsy /\ sc_old = Falsy /\ sc_new = Falsy /\ sc_pc = "idle" /\ sc_writer = "none"

SpecIndividual == InitIndividual /\ [][RipIndividual]_vars

\* C27 (as stated): in the rip_info of an album written by rip_cd and updated by any
\* number of rip_individual_tracks runs, tracks_ripped never exceeds total_tracks.
TracksRippedWithinTotal ==
    ind.rip_info.tracks_ripped <= ind.rip_info.total_tracks

(***************************************************************************)
(* The multi-disc corrector (src/src/tools/multi_disc_fixer.py).  An album *)
(* directory holds files named "D-TT title.flac"; a file is the pair       *)
(* <<D, TT>> of the numbers in its name, with the DISCNUMBER, TRACKNUMBER  *)
(* and TOTALDISCS values it stores (Falsy where the tag is absent).        *)
(***************************************************************************)
MaxDiscFiles == 2

\* The names an album's files may have, and the tags a file named <<d, t>> may hold
DiscFileNames == (1..MaxDisc) \X {1, 2}
DiscFileTags(name) ==
    [DISCNUMBER : {Falsy, Str(name[1])},
     TRACKNUMBER : {Fmt02d(name[2]), Str(name[1]) \o <<"-">> \o Fmt02d(name[2])},
     TOTALDISCS : {Falsy} \cup {Str(d) : d \in 1..MaxDisc}]

\* "expected_discnumber" and "expected_tracknumber" of a track
expected_discnumber(name) == Str(name[1])
expected_tracknumber(name) == Fmt02d(name[2])

\* analyze_album: the issues of one disc, as the set of its files that have one
DiscIssues(files, disc_num) ==
    {name \in DOMAIN files :
        /\ name[1] = disc_num
        /\ \/ files[name].DISCNUMBER /= Str(disc_num)
           \/ /\ Truthy(files[name].TRACKNUMBER)
              /\ files[name].TRACKNUMBER /= Fmt02d(name[2])}

\* analyze_album: album_info; unmatched says a file name does not match track_pattern
MultiDiscFixer_analyze_album(files, unmatched) ==
    [fixable |-> ~unmatched,
     discs |-> {name[1] : name \in DOMAIN files},
     issues |-> [d \in {name[1] : name \in DOMAIN files} |-> DiscIssues(files, d)],
     total_discs |-> Cardinality({name[1] : name \in DOMAIN files})]

\* fix_track_metadata(track_info, dry_run = False): the tags the file holds afterwards
fix_track_metadata(tags_of, name) ==
    [tags_of EXCEPT !.DISCNUMBER = expected_discnumber(name),
                    !.TRACKNUMBER = expected_tracknumber(name)]

\* "first track of first disc": the lowest track of the lowest disc
FirstTrack(files) ==
    CHOOSE name \in DOMAIN files :
        \A other \in DOMAIN files :
            name[1] < other[1] \/ (name[1] = other[1] /\ name[2] <= other[2])

\* "Update TOTALDISCS if needed (check first track of first disc)"
UpdateTotalDiscs(files, album_info) ==
    IF files[FirstTrack(files)].TOTALDISCS /= Str(album_info.total_discs)
    THEN [name \in DOMAIN files |-> [files[name] EXCEPT !.TOTALDISCS = Str(album_info.total_discs)]]
    ELSE files

\* fix_album_metadata(album_info, dry_run): the files afterwards
fix_album_metadata(files, album_info, dry_run) ==
    IF ~album_info.fixable \/ dry_run THEN files
    ELSE LET fixed == [name \in DOMAIN files |->
                          IF /\ album_info.issues[name[1]] /= {}
                             /\ \/ files[name].DISCNUMBER /= expected_discnumber(name)
                                \/ files[name].TRACKNUMBER /= expected_tracknumber(name)
                          THEN fix_track_metadata(files[name], name)
                          ELSE files[name]]
         IN  IF album_info.discs /= {} THEN UpdateTotalDiscs(fixed, album_info) ELSE fixed

\* main: "album_info = fixer.MultiDiscFixer_analyze_album()"
AnalyzeAlbum ==
    /\ Truthy(mdf) /\ mdf.pc = "start"
    /\ mdf' = [mdf EXCEPT !.pc = "analyzed",
                          !.album_info = MultiDiscFixer_analyze_album(mdf.files, mdf.unmatched)]
    /\ UNCHANGED <<ripVars, catVars, tagVars, fsVars, scVars, batchVars, promptVars,
                   ripLogVars, enrichedVars, individualVars, discogsVars>>

\* main: "if has_issues and album_info['fixable']": fix_album_metadata runs, with
\* dry_run False when --apply was given and the user answered y
FixAlbumMetadata ==
    /\ Truthy(mdf) /\ mdf.pc = "analyzed"
    /\ mdf.album_info.fixable
    /\ \E d \in mdf.album_info.discs : mdf.album_info.issues[d] /= {}
    /\ \E dry_run \in BOOLEAN :
          mdf' = [mdf EXCEPT !.pc = "fixed", !.dry_run = dry_run, !.before = mdf.files,
                             !.files = fix_album_metadata(mdf.files, mdf.album_info, dry_run)]
    /\ UNCHANGED <<ripVars, catVars, tagVars, fsVars, scVars, batchVars, promptVars,
                   ripLogVars, enrichedVars, individualVars, discogsVars>>

MultiDiscNext == AnalyzeAlbum \/ FixAlbumMetadata

InitMultiDisc ==
    /\ \E names \in (SUBSET DiscFileNames) \ {{}}, unmatched \in BOOLEAN :
          /\ Cardinality(names) <= MaxDiscFiles
          /\ \E files \in [names -> UNION {DiscFileTags(n) : n \in names}] :
                /\ \A n \in names : files[n] \in DiscFileTags(n)
                /\ mdf = [files |-> files, unmatched |-> unmatched, pc |-> "start",
                          album_info |-> Falsy, dry_run |-> TRUE, before |-> Falsy]
    /\ ind = Falsy
    /\ batch = Falsy /\ prompt = Falsy
    /\ pc = "start" /\ track_count = 0 /\ metadata = Falsy /\ mb_metadata = Falsy
    /\ found_by = "none" /\ user_selected = FALSE /\ choice = NoChoice
    /\ album_dir = Falsy /\ ripped = {}
    /\ dcm = Falsy
    /\ enriched_with = Falsy
    /\ attempted = Falsy
    /\ steps = <<>> /\ file_names = Falsy /\ file_tags = Falsy /\ sidecar = Falsy
    /\ cat_in = Falsy /\ cat = NoCat
    /\ tags = Falsy /\ op = "none" /\ op_in = Falsy
    /\ op_ret = FALSE /\ op_saved = FALSE /\ op_before = Falsy
    /\ op_ok = TRUE /\ op_again = FALSE /\ op_n = 0
    /\ fs = Falsy /\ fs_was = Falsy /\ fs_op = Falsy
    /\ disk = Falsy /\ sc_old = Falsy /\ sc_new = Falsy /\ sc_pc = "idle" /\ sc_writer = "none"

SpecMultiDisc == InitMultiDisc /\ [][MultiDiscNext]_vars

\* C29 (as stated): after fix_album_metadata ran with dry_run False on a fixable album,
\* every file holds TOTALDISCS equal to the number of distinct disc numbers in the
\* album's file names, whatever the files held before.
TotalDiscsOnEveryFile ==
    (Truthy(mdf) /\ mdf.pc = "fixed" /\ ~mdf.dry_run) =>
        \A name \in DOMAIN mdf.files :
            mdf.files[name].TOTALDISCS = Str(Cardinality({n[1] : n \in DOMAIN mdf.files}))

(***************************************************************************)
(* The Discogs client (src/old_files_archive/discogs_cover_manager.py).    *)
(* A request is the path and the query it is sent with; the log holds each *)
(* request sent with the status of its answer and the number of sleeps     *)
(* that followed it.                                                       *)
(***************************************************************************)
MaxRequests == 3

OK == 200
RateLimited == 429
\* The statuses of an answer: 200, 429, and 500 for any other status
Statuses == {OK, RateLimited, 500}

DiscogsArtists == {<<"a">>, <<"a", "&", "b">>}
DiscogsAlbums == {<<"x">>, <<"x", "/", "y">>}
DiscogsReleaseIds == {<<"7">>}

\* "Clean up search terms"
CleanTerm(term) == Strip(Replace(Replace(term, "/", <<" ">>), "&", <<"a", "n", "d">>))

\* "Try different search strategies": the three queries, in order
search_queries(artist, album) ==
    LET artist_clean == CleanTerm(artist)
        album_clean  == CleanTerm(album)
        quoted(t)    == <<"\"">> \o t \o <<"\"">>
    IN  << <<"artist", ":">> \o quoted(artist_clean) \o <<" ", "release_title", ":">>
               \o quoted(album_clean),
           quoted(artist_clean) \o <<" ">> \o quoted(album_clean),
           artist_clean \o <<" ">> \o album_clean >>

SearchRequest(query) == [path |-> <<"database", "search">>, q |-> query]
DetailsRequest(release_id) == [path |-> <<"releases">> \o release_id, q |-> Falsy]

\* handle_rate_limit(response): it sleeps when at most 5 requests remain
handle_rate_limit(low) == IF low THEN 1 ELSE 0

NoCall == [call |-> "none", pc |-> "idle", queries |-> <<>>, i |-> 0, log |-> <<>>,
           next |-> Falsy, raised |-> FALSE, value |-> Falsy]

\* The entry of the log for a request and its answer
Answered(request, status, low) ==
    [request |-> request, status |-> status,
     slept |-> handle_rate_limit(low) + (IF status = RateLimited THEN 1 ELSE 0)]

\* search_releases(artist, album) is called
CallSearchReleases ==
    /\ dcm.pc = "idle"
    /\ \E artist \in DiscogsArtists, album \in DiscogsAlbums :
          dcm' = [NoCall EXCEPT !.call = "search_releases", !.pc = "running",
                                !.queries = search_queries(artist, album), !.i = 1,
                                !.next = SearchRequest(search_queries(artist, album)[1])]
    /\ UNCHANGED <<ripVars, catVars, tagVars, fsVars, scVars, batchVars, promptVars,
                   ripLogVars, enrichedVars, individualVars, multiDiscVars>>

\* search_releases, one pass of "for query in search_queries": the request, then the
\* branch on the status; results says the answer has a non-empty 'results'
SearchReleasesRequest ==
    /\ dcm.call = "search_releases" /\ dcm.pc = "running"
    /\ \E status \in Statuses, low \in BOOLEAN, results \in BOOLEAN, raises \in BOOLEAN :
          LET request == SearchRequest(dcm.queries[dcm.i])
              log     == Append(dcm.log, Answered(request, status, low))
              more    == dcm.i < Len(dcm.queries)
          IN  dcm' = IF raises
                     THEN [dcm EXCEPT !.pc = "returned", !.next = Falsy, !.raised = TRUE,
                                      !.value = <<>>]
                     ELSE IF status = OK /\ results
                     THEN [dcm EXCEPT !.pc = "returned", !.log = log, !.next = Falsy,
                                      !.value = <<"results">>]
                     ELSE IF more
                     THEN [dcm EXCEPT !.log = log, !.i = dcm.i + 1,
                                      !.next = SearchRequest(dcm.queries[dcm.i + 1])]
                     ELSE [dcm EXCEPT !.pc = "returned", !.log = log, !.next = Falsy,
                                      !.value = <<>>]
    /\ UNCHANGED <<ripVars, catVars, tagVars, fsVars, scVars, batchVars, promptVars,
                   ripLogVars, enrichedVars, individualVars, multiDiscVars>>

\* get_release_details(release_id) is called
CallGetReleaseDetails ==
    /\ dcm.pc = "idle"
    /\ \E release_id \in DiscogsReleaseIds :
          dcm' = [NoCall EXCEPT !.call = "get_release_details", !.pc = "running",
                                !.next = DetailsRequest(release_id)]
    /\ UNCHANGED <<ripVars, catVars, tagVars, fsVars, scVars, batchVars, promptVars,
                   ripLogVars, enrichedVars, individualVars, multiDiscVars>>

\* get_release_details, one request and the branch on its status: on 429 the function
\* calls itself with the same release_id
GetReleaseDetailsRequest ==
    /\ dcm.call = "get_release_details" /\ dcm.pc = "running"
    /\ Len(dcm.log) < MaxRequests
    /\ \E status \in Statuses, low \in BOOLEAN, raises \in BOOLEAN :
          LET request == dcm.next
              log     == Append(dcm.log, Answered(request, status, low))
          IN  dcm' = IF raises
                     THEN [dcm EXCEPT !.pc = "returned", !.next = Falsy, !.raised = TRUE]
                     ELSE IF status = OK
                     THEN [dcm EXCEPT !.pc = "returned", !.log = log, !.next = Falsy,
                                      !.value = <<"release">>]
                     ELSE IF status = RateLimited
                     THEN [dcm EXCEPT !.log = log, !.next = request]
                     ELSE [dcm EXCEPT !.pc = "returned", !.log = log, !.next = Falsy]
    /\ UNCHANGED <<ripVars, catVars, tagVars, fsVars, scVars, batchVars, promptVars,
                   ripLogVars, enrichedVars, individualVars, multiDiscVars>>

DiscogsNext ==
    \/ CallSearchReleases
    \/ SearchReleasesRequest
    \/ CallGetReleaseDetails
    \/ GetReleaseDetailsRequest

InitDiscogs ==
    /\ dcm = NoCall
    /\ mdf = Falsy
    /\ ind = Falsy
    /\ batch = Falsy /\ prompt = Falsy
    /\ pc = "start" /\ track_count = 0 /\ metadata = Falsy /\ mb_metadata = Falsy
    /\ found_by = "none" /\ user_selected = FALSE /\ choice = NoChoice
    /\ album_dir = Falsy /\ ripped = {}
    /\ enriched_with = Falsy
    /\ attempted = Falsy
    /\ steps = <<>> /\ file_names = Falsy /\ file_tags = Falsy /\ sidecar = Falsy
    /\ cat_in = Falsy /\ cat = NoCat
    /\ tags = Falsy /\ op = "none" /\ op_in = Falsy
    /\ op_ret = FALSE /\ op_saved = FALSE /\ op_before = Falsy
    /\ op_ok = TRUE /\ op_again = FALSE /\ op_n = 0
    /\ fs = Falsy /\ fs_was = Falsy /\ fs_op = Falsy
    /\ disk = Falsy /\ sc_old = Falsy /\ sc_new = Falsy /\ sc_pc = "idle" /\ sc_writer = "none"

SpecDiscogs == InitDiscogs /\ [][DiscogsNext]_vars

\* C30 (as stated): a request answered with HTTP 429 is followed by a wait and by that
\* same request again, in search_releases and in get_release_details alike: the client
\* neither sends a different request next nor returns without retrying.
RateLimitedRequestRetried ==
    Truthy(dcm) =>
        \A k \in 1..Len(dcm.log) :
            dcm.log[k].status = RateLimited =>
                /\ dcm.log[k].slept >= 1
                /\ IF k < Len(dcm.log)
                   THEN dcm.log[k + 1].request = dcm.log[k].request
                   ELSE dcm.pc = "running" /\ dcm.next = dcm.log[k].request

====
